---- MODULE Spec2Model ----
(***************************************************************************)
(* Verification model of the domainname-wizard search engine: the job      *)
(* registry (lib/jobs/store.ts), the looped search runner                  *)
(* (lib/search/runner.ts), the scoring model (lib/search/scoring.ts), the  *)
(* ranking/classification helpers and the bandit optimizer.                *)
(*                                                                         *)
(* Conventions.  A JavaScript string is a sequence of one-character        *)
(* strings, so that normalisation, tokenisation and scoring are computed   *)
(* character by character as the code does.  Money is held in cents        *)
(* (the code's prices are numbers rounded to two decimals), scores in      *)
(* hundredths of a point (the code rounds every score to two decimals) and *)
(* rewards in hundredths.  Sums that the code forms in floating point are  *)
(* formed exactly here and rounded once, half up.                          *)
(***************************************************************************)
EXTENDS Integers, Sequences, FiniteSets, TLC, Bags

-----------------------------------------------------------------------------
(* Generic helpers                                                         *)

Min2(a, b) == IF a < b THEN a ELSE b
Max2(a, b) == IF a > b THEN a ELSE b
Abs(a) == IF a < 0 THEN 0 - a ELSE a

\* a clamp that lets every value through
Unclamped(value, min, max) == value

\* Math.min(max, Math.max(min, value))
clamp(value, min, max) == Min2(max, Max2(min, value))

\* n / d rounded to the nearest integer, halves up (Math.round, toFixed), n >= 0
RoundDiv(n, d) == (2 * n + d) \div (2 * d)

Range(s) == {s[i] : i \in 1..Len(s)}

RECURSIVE SumSeq(_)
SumSeq(s) == IF s = <<>> THEN 0 ELSE Head(s) + SumSeq(Tail(s))

RECURSIVE FilterSeq(_, _)
\* the elements of s that are in the set keep, in order
FilterSeq(s, keep) ==
    IF s = <<>> THEN <<>>
    ELSE (IF Head(s) \in keep THEN <<Head(s)>> ELSE <<>>) \o FilterSeq(Tail(s), keep)

-----------------------------------------------------------------------------
(* Characters                                                              *)

LowerLetters == <<"a","b","c","d","e","f","g","h","i","j","k","l","m",
                  "n","o","p","q","r","s","t","u","v","w","x","y","z">>
UpperLetters == <<"A","B","C","D","E","F","G","H","I","J","K","L","M",
                  "N","O","P","Q","R","S","T","U","V","W","X","Y","Z">>
DigitChars == <<"0","1","2","3","4","5","6","7","8","9">>
Alnum == Range(LowerLetters) \cup Range(DigitChars)
Vowels == {"a", "e", "i", "o", "u", "y"}
Whitespace == {" "}

\* String.prototype.toLowerCase on one character
LowerOf ==
    [c \in {UpperLetters[i] : i \in 1..26} |->
        LowerLetters[CHOOSE i \in 1..26 : UpperLetters[i] = c]]

toLowerChar(c) == IF c \in DOMAIN LowerOf THEN LowerOf[c] ELSE c

toLowerCase(s) == [i \in 1..Len(s) |-> toLowerChar(s[i])]

\* Collation rank of a character of a normalised domain for localeCompare:
\* punctuation sorts before digits, digits before letters.
CollationOrder == <<"-", ".">> \o DigitChars \o LowerLetters
RankOf ==
    [c \in {CollationOrder[i] : i \in 1..Len(CollationOrder)} |->
        CHOOSE i \in 1..Len(CollationOrder) : CollationOrder[i] = c]

CharRank(c) == IF c \in DOMAIN RankOf THEN RankOf[c] ELSE 0

RECURSIVE localeCompare(_, _)
\* a.localeCompare(b): negative, zero or positive
localeCompare(a, b) ==
    IF a = <<>> /\ b = <<>> THEN 0
    ELSE IF a = <<>> THEN 0 - 1
    ELSE IF b = <<>> THEN 1
    ELSE IF CharRank(Head(a)) # CharRank(Head(b))
         THEN (IF CharRank(Head(a)) < CharRank(Head(b)) THEN 0 - 1 ELSE 1)
    ELSE localeCompare(Tail(a), Tail(b))

RECURSIVE StripLeading(_, _)
StripLeading(s, drop) ==
    IF s # <<>> /\ Head(s) \in drop THEN StripLeading(Tail(s), drop) ELSE s

RECURSIVE StripTrailing(_, _)
StripTrailing(s, drop) ==
    IF s # <<>> /\ s[Len(s)] \in drop
    THEN StripTrailing(SubSeq(s, 1, Len(s) - 1), drop)
    ELSE s

\* String.prototype.trim, and the edge-dash regex, as one helper
StripEdges(s, drop) == StripTrailing(StripLeading(s, drop), drop)

RECURSIVE SplitFrom(_, _, _)
\* the maximal runs of characters of s, from index i on, that are in keep
SplitFrom(s, i, keep) ==
    IF i > Len(s) THEN <<>>
    ELSE IF s[i] \notin keep THEN SplitFrom(s, i + 1, keep)
    ELSE LET j == CHOOSE e \in i..Len(s) :
                     /\ \A k \in i..e : s[k] \in keep
                     /\ (e = Len(s) \/ s[e + 1] \notin keep)
         IN  <<SubSeq(s, i, j)>> \o SplitFrom(s, j + 1, keep)

\* String.prototype.includes
includes(s, t) ==
    \E i \in 1..(Len(s) - Len(t) + 1) : SubSeq(s, i, i + Len(t) - 1) = t

\* the null / undefined label or TLD
NoString == <<>>

-----------------------------------------------------------------------------
(* lib/domain/normalize.ts                                                 *)

MaxLabelLength == 63
MinTldLength == 2
MaxTldLength == 24

RECURSIVE ExpandAmpersands(_)
\* .replace(/&/g, " and ").replace(/['’]/g, "")
ExpandAmpersands(s) ==
    IF s = <<>> THEN <<>>
    ELSE (IF Head(s) = "&" THEN <<" ", "a", "n", "d", " ">>
          ELSE IF Head(s) = "'" THEN <<>>
          ELSE <<Head(s)>>) \o ExpandAmpersands(Tail(s))

RECURSIVE Hyphenate(_)
\* .replace(/[^a-z0-9]+/g, "-").replace(/-+/g, "-")
Hyphenate(s) ==
    IF s = <<>> THEN <<>>
    ELSE LET rest == Hyphenate(Tail(s))
         IN  IF Head(s) \in Alnum THEN <<Head(s)>> \o rest
             ELSE IF rest # <<>> /\ Head(rest) = "-" THEN rest
             ELSE <<"-">> \o rest

\* normalizeBusinessNameToLabel: NoString stands for null.  The alphabet of the
\* model is ASCII, on which NFKD and the combining-mark strip are the identity.
normalizeBusinessNameToLabel(input) ==
    LET normalized ==
            StripEdges(Hyphenate(ExpandAmpersands(
                StripEdges(toLowerCase(input), Whitespace))), {"-"})
    IN  IF normalized = <<>> THEN NoString
        ELSE IF Len(normalized) < 1 \/ Len(normalized) > MaxLabelLength THEN NoString
        ELSE IF \E i \in 1..Len(normalized) : normalized[i] \notin Alnum \cup {"-"}
             THEN NoString
        ELSE normalized

\* normalizeTld: NoString stands for null
normalizeTld(input) ==
    LET trimmed == toLowerCase(StripEdges(input, Whitespace))
        tld == IF trimmed # <<>> /\ Head(trimmed) = "." THEN Tail(trimmed) ELSE trimmed
    IN  IF tld = <<>> THEN NoString
        ELSE IF \/ Len(tld) < MinTldLength
                \/ Len(tld) > MaxTldLength
                \/ \E i \in 1..Len(tld) : tld[i] \notin Alnum \cup {"-"}
             THEN NoString
        ELSE IF Head(tld) = "-" \/ tld[Len(tld)] = "-" THEN NoString
        ELSE tld

-----------------------------------------------------------------------------
(* lib/search/scoring.ts                                                   *)

\* priceMicros / price when the provider gave no price (undefined)
NoPrice == 0 - 1

\* tokenizeText: the runs of [a-z0-9] of the lower-cased text, of length >= 2
tokenizeText(input) ==
    LET runs == SplitFrom(toLowerCase(input), 1, Alnum)
    IN  FilterSeq(runs, {t \in Range(runs) : Len(t) >= 2})

MaxLearningTokenLength == 24

\* tokenizeForLearning
tokenizeForLearning(input) ==
    LET tokens == tokenizeText(input)
    IN  [i \in 1..Len(tokens) |->
            SubSeq(tokens[i], 1, Min2(Len(tokens[i]), MaxLearningTokenLength))]

\* the number of maximal vowel groups of a part, /[aeiouy]+/g
VowelGroups(part) ==
    Cardinality({i \in 1..Len(part) :
                    part[i] \in Vowels /\ (i = 1 \/ part[i - 1] \notin Vowels)})

\* estimateSyllables
estimateSyllables(label) ==
    LET parts == SplitFrom(label, 1, Range(label) \ {"-"})
    IN  IF parts = <<>> THEN 1
        ELSE Max2(1, SumSeq([i \in 1..Len(parts) |-> Max2(1, VowelGroups(parts[i]))]))

\* label.replace(/-/g, "")
PlainLabel(label) == FilterSeq(label, Range(label) \ {"-"})

\* the longest run of non-vowel characters of plain
WorstConsonantStreak(plain) ==
    LET runs == SplitFrom(plain, 1, Range(plain) \ Vowels)
    IN  IF runs = <<>> THEN 0
        ELSE CHOOSE n \in {Len(r) : r \in Range(runs)} :
                 \A r \in Range(runs) : Len(r) <= n

\* calculatePronounceability, as a numerator over 5 * max(1, plain.length)
PronounceabilityNum(label) ==
    LET plain == PlainLabel(label)
        L == Max2(1, Len(plain))
        vowels == Cardinality({i \in 1..Len(plain) : plain[i] \in Vowels})
        streakPenalty == clamp((WorstConsonantStreak(plain) - 2) * 14, 0, 60)
    IN  IF label = <<>> THEN 0
        ELSE clamp(100 * 5 * L - Abs(100 * vowels - 42 * L) * 11 - streakPenalty * 5 * L,
                   0, 100 * 5 * L)

\* calculateLengthScore
calculateLengthScore(labelLength) == clamp(100 - Abs(labelLength - 9) * 10, 0, 100)

\* calculateSyllableScore
calculateSyllableScore(syllables) ==
    IF syllables >= 2 /\ syllables <= 3 THEN 100
    ELSE IF syllables = 1 \/ syllables = 4 THEN 78
    ELSE IF syllables = 5 THEN 55
    ELSE 35

\* calculateKeywordRelevance, as a numerator over max(1, keywordTokens.length)
KeywordRelevanceNum(label, keywordTokens) ==
    LET K == Max2(1, Len(keywordTokens))
        matches == Cardinality({i \in 1..Len(keywordTokens) :
                                   includes(label, keywordTokens[i])})
    IN  IF label = <<>> \/ keywordTokens = <<>> THEN 35 * K
        ELSE clamp(30 * K + matches * 70, 0, 100 * K)

\* calculateDistinctiveness, as a numerator over max(1, plain.length)
DistinctivenessNum(label) ==
    LET plain == PlainLabel(label)
    IN  IF plain = <<>> THEN 0
        ELSE clamp(Cardinality(Range(plain)) * 120, 0, 100 * Len(plain))

\* calculateAffordabilityScore, as a numerator over max(1, yearlyBudget) in cents
AffordabilityNum(price, yearlyBudget) ==
    LET bb == Max2(100, yearlyBudget)
    IN  IF price = NoPrice THEN 50 * bb
        ELSE clamp(112 * bb - 65 * price, 0, 100 * bb)

\* TRUSTED_TLD_MODIFIERS[tld] ?? 0.85, in percent
TldModifier(tld) ==
    IF tld = <<"c","o","m">> THEN 100
    ELSE IF tld = <<"i","o">> THEN 95
    ELSE IF tld = <<"c","o">> THEN 93
    ELSE IF tld = <<"a","i">> THEN 94
    ELSE IF tld = <<"n","e","t">> THEN 90
    ELSE IF tld = <<"o","r","g">> THEN 90
    ELSE IF tld = <<"a","p","p">> THEN 92
    ELSE 85

\* index of the first "." of a domain, 0 if none
DotIndex(domain) ==
    IF \E i \in 1..Len(domain) : domain[i] = "."
    THEN CHOOSE i \in 1..Len(domain) :
             domain[i] = "." /\ \A k \in 1..(i - 1) : domain[k] # "."
    ELSE 0

\* the marketability score of scoreDomainResult, in hundredths
MarketabilityScore(label, tld, keywordTokens) ==
    LET L == Max2(1, Len(PlainLabel(label)))
        K == Max2(1, Len(keywordTokens))
        D == 5 * L * K
        weighted ==
              calculateLengthScore(Len(label)) * D * 22
            + calculateSyllableScore(estimateSyllables(label)) * D * 18
            + PronounceabilityNum(label) * K * 20
            + KeywordRelevanceNum(label, keywordTokens) * 5 * L * 16
            + DistinctivenessNum(label) * 5 * K * 10
            + (IF "-" \in Range(label) THEN 28 ELSE 100) * D * 8
            + (IF Range(label) \cap Range(DigitChars) # {} THEN 24 ELSE 100) * D * 6
    IN  clamp(RoundDiv(weighted * TldModifier(tld), 100 * D), 0, 10000)

\* the financial value score of scoreDomainResult, in hundredths
FinancialValueScore(result, yearlyBudget) ==
    LET bb == Max2(100, yearlyBudget)
        weighted ==
              (IF result.available THEN 100 ELSE 0) * bb * 35
            + (IF result.definitive THEN 100 ELSE 62) * bb * 12
            + AffordabilityNum(result.price, yearlyBudget) * 38
            + (IF result.isNamelixPremium THEN 35 ELSE 100) * bb * 15
        base == clamp(RoundDiv(weighted, bb), 0, 10000)
        afterBudget == IF result.overBudget THEN RoundDiv(base * 82, 100) ELSE base
    IN  IF result.available THEN afterBudget ELSE RoundDiv(afterBudget * 45, 100)

\* scoreDomainResult: the metrics of one result (value drivers, which only
\* explain the numbers, are left out)
scoreDomainResult(result, input) ==
    LET Metrics(marketabilityScore, financialValueScore, label) ==
            [marketabilityScore |-> marketabilityScore,
             financialValueScore |-> financialValueScore,
             overallScore |->
                 clamp(RoundDiv(financialValueScore * 62 + marketabilityScore * 38, 100),
                       0, 10000),
             syllableCount |-> estimateSyllables(label),
             labelLength |-> Len(label)]
        Scored(label, tld, keywordTokens) ==
            Metrics(MarketabilityScore(label, tld, keywordTokens),
                    FinancialValueScore(result, input.yearlyBudget),
                    label)
        Split(domain, dot) ==
            Scored(IF dot > 0 THEN SubSeq(domain, 1, dot - 1) ELSE <<>>,
                   IF dot > 0 THEN SubSeq(domain, dot + 1, Len(domain))
                   ELSE toLowerCase(input.tld),
                   tokenizeText(input.keywords \o <<" ">> \o input.description))
    IN  Split(toLowerCase(result.domain), DotIndex(toLowerCase(result.domain)))

RECURSIVE InsertDescending(_, _)
InsertDescending(x, sorted) ==
    IF sorted = <<>> THEN <<x>>
    ELSE IF Head(sorted) >= x THEN <<Head(sorted)>> \o InsertDescending(x, Tail(sorted))
    ELSE <<x>> \o sorted

RECURSIVE SortDescending(_)
\* [...scores].sort((a, b) => b - a)
SortDescending(scores) ==
    IF scores = <<>> THEN <<>>
    ELSE InsertDescending(scores[Len(scores)],
                          SortDescending(SubSeq(scores, 1, Len(scores) - 1)))

RewardTopSlice == 5

\* scoreRewardFromRankedScores: scores in hundredths, reward in hundredths
scoreRewardFromRankedScores(scores) ==
    IF scores = <<>> THEN 0
    ELSE LET sorted == SortDescending(scores)
             topSlice == SubSeq(sorted, 1, Min2(RewardTopSlice, Len(sorted)))
         IN  clamp(RoundDiv(SumSeq(topSlice), 100 * Len(topSlice)), 0, 100)

-----------------------------------------------------------------------------
(* lib/search/optimizer.ts: arm statistics                                 *)

\* createArmStats: reward is the cumulative reward in hundredths
createArmStats == [plays |-> 0, reward |-> 0]

\* averageReward(stats) as the fraction AverageNum / AverageDen (0.55 unplayed)
AverageNum(stats) == IF stats.plays = 0 THEN 55 ELSE stats.reward
AverageDen(stats) == IF stats.plays = 0 THEN 100 ELSE 100 * stats.plays

\* averageReward(a) - averageReward(b), up to a positive factor
averageRewardDifference(a, b) ==
    AverageNum(a) * AverageDen(b) - AverageNum(b) * AverageDen(a)

-----------------------------------------------------------------------------
(* lib/search/sort.ts and lib/search/classify.ts                           *)

\* a.price ?? Number.POSITIVE_INFINITY, as a comparison of two prices
PriceLess(a, b) == a # NoPrice /\ (b = NoPrice \/ a < b)

\* a tie-break that stops at the overall score
compareOverallOnly(a, b) == b.overallScore - a.overallScore

\* compareOverallTieBreak
compareOverallTieBreak(a, b) ==
    IF a.overallScore # b.overallScore THEN b.overallScore - a.overallScore
    ELSE localeCompare(a.domain, b.domain)

\* compareMarketability
compareMarketability(a, b) ==
    IF a.marketabilityScore # b.marketabilityScore
    THEN b.marketabilityScore - a.marketabilityScore
    ELSE compareOverallTieBreak(a, b)

\* compareFinancialValue
compareFinancialValue(a, b) ==
    IF a.financialValueScore # b.financialValueScore
    THEN b.financialValueScore - a.financialValueScore
    ELSE compareOverallTieBreak(a, b)

\* compareAlphabetical
compareAlphabetical(a, b) ==
    IF localeCompare(a.domain, b.domain) # 0 THEN localeCompare(a.domain, b.domain)
    ELSE compareOverallTieBreak(a, b)

\* compareSyllableCount
compareSyllableCount(a, b) ==
    IF a.syllableCount # b.syllableCount THEN a.syllableCount - b.syllableCount
    ELSE compareOverallTieBreak(a, b)

\* compareLabelLength
compareLabelLength(a, b) ==
    IF a.labelLength # b.labelLength THEN a.labelLength - b.labelLength
    ELSE compareOverallTieBreak(a, b)

\* sortByPriceAscending / sortRankedByPriceAscending of classify.ts
sortByPriceAscending(a, b) ==
    IF a.price # b.price THEN (IF PriceLess(a.price, b.price) THEN 0 - 1 ELSE 1)
    ELSE localeCompare(a.domain, b.domain)

\* the comparator a sort mode selects
Compare(mode, a, b) ==
    IF mode = "financialValue" THEN compareFinancialValue(a, b)
    ELSE IF mode = "alphabetical" THEN compareAlphabetical(a, b)
    ELSE IF mode = "syllableCount" THEN compareSyllableCount(a, b)
    ELSE IF mode = "labelLength" THEN compareLabelLength(a, b)
    ELSE IF mode = "priceAscending" THEN sortByPriceAscending(a, b)
    ELSE IF mode = "averageRewardDescending" THEN averageRewardDifference(b, a)
    ELSE compareMarketability(a, b)

RECURSIVE InsertSorted(_, _, _)
\* x placed after every element that does not compare greater than it
InsertSorted(x, sorted, mode) ==
    IF sorted = <<>> THEN <<x>>
    ELSE IF Compare(mode, x, Head(sorted)) < 0 THEN <<x>> \o sorted
    ELSE <<Head(sorted)>> \o InsertSorted(x, Tail(sorted), mode)

RECURSIVE StableSort(_, _)
\* Array.prototype.sort (stable) under the comparator of mode
StableSort(rows, mode) ==
    IF rows = <<>> THEN <<>>
    ELSE InsertSorted(rows[Len(rows)],
                      StableSort(SubSeq(rows, 1, Len(rows) - 1), mode), mode)

\* sortRankedDomains: a sorted copy
sortRankedDomains(rows, mode) == StableSort(rows, mode)

\* classifyRankedResults
classifyRankedResults(rankedResults, loopSummaries, tuningHistory) ==
    LET availableRanked ==
            FilterSeq(rankedResults,
                      {r \in Range(rankedResults) : r.available /\ ~r.overBudget})
    IN  [withinBudget |->
             StableSort(FilterSeq(availableRanked,
                                  {r \in Range(availableRanked) : ~r.overBudget}),
                        "priceAscending"),
         overBudget |-> <<>>,
         unavailable |-> <<>>,
         allRanked |-> availableRanked,
         loopSummaries |-> loopSummaries,
         tuningHistory |-> tuningHistory]

-----------------------------------------------------------------------------
(* lib/search/runner.ts: pure helpers                                      *)

LOOP_CONSIDERED_LIMIT == 251
LOOP_MAX_STALLED_BATCHES == 3
LOOP_MAX_BATCH_ATTEMPTS == 12

RECURSIVE CandidatesFrom(_, _, _, _)
\* the loop of buildDomainCandidates over the logos, seen = seenDomains
CandidatesFrom(logos, maxLength, normalizedTld, seen) ==
    IF logos = <<>> THEN <<>>
    ELSE LET logo == Head(logos)
             label == normalizeBusinessNameToLabel(logo.businessName)
             domain == label \o <<".">> \o normalizedTld
         IN  IF label = NoString \/ Len(label) > maxLength \/ domain \in seen
             THEN CandidatesFrom(Tail(logos), maxLength, normalizedTld, seen)
             ELSE <<[domain |-> domain,
                     sourceName |-> logo.businessName,
                     isNamelixPremium |-> (logo.name = "premium")]>>
                  \o CandidatesFrom(Tail(logos), maxLength, normalizedTld,
                                    seen \cup {domain})

\* buildDomainCandidates throws "Invalid TLD after normalization."
InvalidTld(input) == normalizeTld(input.tld) = NoString

\* buildDomainCandidates(input, logos).candidates (the invalid list is not
\* read by the runner)
buildDomainCandidates(input, logos) ==
    CandidatesFrom(logos, input.maxLength, normalizeTld(input.tld), {})

\* parseDomainLabel: NoString stands for null
parseDomainLabel(domain) ==
    IF DotIndex(domain) <= 1 THEN NoString ELSE SubSeq(domain, 1, DotIndex(domain) - 1)

\* microsToPrice: Number((micros / 1_000_000).toFixed(2)), in cents
microsToPrice(micros) == IF micros = NoPrice THEN NoPrice ELSE RoundDiv(micros, 10000)

\* a toDomainResult that flags the prices under the budget
toDomainResultUnderBudget(item, yearlyBudget) ==
    [domain |-> item.domain,
     sourceName |-> item.sourceName,
     isNamelixPremium |-> item.isNamelixPremium,
     available |-> item.available,
     definitive |-> item.definitive,
     priceMicros |-> item.priceMicros,
     price |-> microsToPrice(item.priceMicros),
     overBudget |-> (item.available /\ item.priceMicros # NoPrice
                     /\ microsToPrice(item.priceMicros) < yearlyBudget)]

\* toDomainResult: yearlyBudget in cents
toDomainResult(item, yearlyBudget) ==
    LET price == microsToPrice(item.priceMicros)
    IN  [domain |-> item.domain,
         sourceName |-> item.sourceName,
         isNamelixPremium |-> item.isNamelixPremium,
         available |-> item.available,
         definitive |-> item.definitive,
         priceMicros |-> item.priceMicros,
         price |-> price,
         overBudget |-> (item.available /\ price # NoPrice /\ price > yearlyBudget)]

\* a shouldReplaceByScore that prefers the lower score
shouldReplaceByScoreLower(existing, next) ==
    IF next.overallScore # existing.overallScore
    THEN next.overallScore < existing.overallScore
    ELSE IF next.price # existing.price THEN PriceLess(next.price, existing.price)
    ELSE localeCompare(next.domain, existing.domain) < 0

\* shouldReplaceByScore
shouldReplaceByScore(existing, next) ==
    IF next.overallScore # existing.overallScore
    THEN next.overallScore > existing.overallScore
    ELSE IF next.price # existing.price THEN PriceLess(next.price, existing.price)
    ELSE localeCompare(next.domain, existing.domain) < 0

\* a mergeAggregateEntry that keeps the chosen record's firstSeenLoop
mergeAggregateEntryRestamped(existing, candidate, loop) ==
    LET chosen == IF shouldReplaceByScore(existing, candidate) THEN candidate ELSE existing
    IN  [chosen EXCEPT !.lastSeenLoop = loop,
                       !.timesDiscovered = existing.timesDiscovered + 1]

\* a mergeAggregateEntry that does not count the discovery
mergeAggregateEntryUncounted(existing, candidate, loop) ==
    LET chosen == IF shouldReplaceByScore(existing, candidate) THEN candidate ELSE existing
    IN  [chosen EXCEPT !.firstSeenLoop = existing.firstSeenLoop,
                       !.lastSeenLoop = loop]

\* mergeAggregateEntry for an existing entry
mergeAggregateEntry(existing, candidate, loop) ==
    LET chosen == IF shouldReplaceByScore(existing, candidate) THEN candidate ELSE existing
    IN  [chosen EXCEPT !.firstSeenLoop = existing.firstSeenLoop,
                       !.lastSeenLoop = loop,
                       !.timesDiscovered = existing.timesDiscovered + 1]

RECURSIVE mergeRowsIntoAggregate(_, _, _)
\* mergeRowsIntoAggregate: the aggregate is a function from the lower-cased
\* domain to its entry
mergeRowsIntoAggregate(aggregate, rows, loop) ==
    IF rows = <<>> THEN aggregate
    ELSE LET row == Head(rows)
             key == toLowerCase(row.domain)
             merged == IF key \in DOMAIN aggregate
                       THEN mergeAggregateEntry(aggregate[key], row, loop)
                       ELSE row
         IN  IF parseDomainLabel(row.domain) = NoString
             THEN mergeRowsIntoAggregate(aggregate, Tail(rows), loop)
             ELSE mergeRowsIntoAggregate(
                      [k \in DOMAIN aggregate \cup {key} |->
                          IF k = key THEN merged ELSE aggregate[k]],
                      Tail(rows), loop)

RECURSIVE SetToSeq(_)
\* Array.from(aggregate.values()): some order of the entries (the sort that
\* follows is total on distinct domains)
SetToSeq(S) ==
    IF S = {} THEN <<>>
    ELSE LET x == CHOOSE y \in S : TRUE IN <<x>> \o SetToSeq(S \ {x})

\* buildResultsSnapshot
buildResultsSnapshot(aggregate, loopSummaries, tuningHistory) ==
    classifyRankedResults(
        sortRankedDomains(SetToSeq({aggregate[k] : k \in DOMAIN aggregate}),
                          "marketability"),
        loopSummaries, tuningHistory)

\* buildBatchMaxNames
buildBatchMaxNames(requiredRemaining, configuredMaxNames) ==
    clamp(Max2(Max2(requiredRemaining * 3, requiredRemaining),
               Min2(configuredMaxNames, 80)),
          requiredRemaining, 250)

\* a progress over the whole of [0, 100]
calculateLoopProgressFull(totalLoops, currentLoop, fracNum, fracDen) ==
    IF totalLoops <= 0 THEN 100
    ELSE RoundDiv(100 * (Max2(0, currentLoop - 1) * fracDen + clamp(fracNum, 0, fracDen)),
                  fracDen * totalLoops)

\* calculateLoopProgress, the loop fraction given as fracNum / fracDen
calculateLoopProgress(totalLoops, currentLoop, fracNum, fracDen) ==
    IF totalLoops <= 0 THEN 100
    ELSE LET completedLoops == Max2(0, currentLoop - 1)
             num == clamp(fracNum, 0, fracDen)
         IN  RoundDiv(5 * fracDen * totalLoops + 90 * (completedLoops * fracDen + num),
                      fracDen * totalLoops)

\* the three loop fractions the runner publishes, over 100 * max(1, maxNames)
FractionDen(maxNames) == 100 * Max2(1, maxNames)
PreScrapeFraction(found, maxNames) == 5 * Max2(1, maxNames) + 80 * found
PreCheckFraction(found, maxNames) == 9 * Max2(1, maxNames) + 80 * found
LiveFraction(found, maxNames) == 12 * Max2(1, maxNames) + 82 * found

NoScore == 0 - 1

RECURSIVE RankedFrom(_, _, _)
\* the loop of scoreIterationResults
RankedFrom(rawResults, input, loop) ==
    LET Row(result, metrics) ==
            [domain |-> result.domain,
             sourceName |-> result.sourceName,
             isNamelixPremium |-> result.isNamelixPremium,
             available |-> result.available,
             definitive |-> result.definitive,
             priceMicros |-> result.priceMicros,
             price |-> result.price,
             overBudget |-> result.overBudget,
             marketabilityScore |-> metrics.marketabilityScore,
             financialValueScore |-> metrics.financialValueScore,
             overallScore |-> metrics.overallScore,
             syllableCount |-> metrics.syllableCount,
             labelLength |-> metrics.labelLength,
             firstSeenLoop |-> loop,
             lastSeenLoop |-> loop,
             timesDiscovered |-> 1]
        Rows(result, label) ==
            IF ~result.available \/ result.overBudget THEN <<>>
            ELSE IF label = NoString \/ Len(label) > input.maxLength THEN <<>>
            ELSE <<Row(result, scoreDomainResult(result, input))>>
        From(result) == Rows(result, parseDomainLabel(result.domain))
    IN  IF rawResults = <<>> THEN <<>>
        ELSE From(toDomainResult(Head(rawResults), input.yearlyBudget))
             \o RankedFrom(Tail(rawResults), input, loop)

\* scoreIterationResults
scoreIterationResults(rawResults, input, loop) ==
    LET Scored(sorted) ==
            [ranked |-> sorted,
             availableCount |-> Len(sorted),
             withinBudgetCount |-> Len(sorted),
             averageOverallScore |->
                 IF Len(sorted) > 0
                 THEN RoundDiv(SumSeq([i \in 1..Len(sorted) |-> sorted[i].overallScore]),
                               Len(sorted))
                 ELSE 0,
             topDomain |-> IF sorted = <<>> THEN NoString ELSE sorted[1].domain,
             topScore |-> IF sorted = <<>> THEN NoScore ELSE sorted[1].overallScore]
    IN  Scored(sortRankedDomains(RankedFrom(rawResults, input, loop), "marketability"))

\* a loop's skipReason: the template literal's text and interpolated number
NoSkipReason == [text |-> "undefined", limit |-> 0]
ConsideredCapReason ==
    [text |-> "Considered-name cap of ${limit} reached.", limit |-> LOOP_CONSIDERED_LIMIT]
BatchCapReason ==
    [text |-> "Batch attempt cap (${limit}) reached before quota.",
     limit |-> LOOP_MAX_BATCH_ATTEMPTS]
StalledReason ==
    [text |-> "No newly qualifying domains across ${limit} consecutive batches.",
     limit |-> LOOP_MAX_STALLED_BATCHES]

\* buildLoopSummary
buildLoopSummary(loop, input, selected, state, scored) ==
    [loop |-> loop,
     keywords |-> input.keywords,
     description |-> input.description,
     style |-> selected.selectedStyle,
     randomness |-> selected.selectedRandomness,
     mutationIntensity |-> selected.selectedMutationIntensity,
     requiredQuota |-> input.maxNames,
     quotaMet |-> state.quotaMet,
     skipped |-> ~state.quotaMet,
     limitHit |-> state.limitHit,
     skipReason |-> state.skipReason,
     consideredCount |-> state.consideredCount,
     batchCount |-> state.batchCount,
     discoveredCount |-> Len(scored.ranked),
     availableCount |-> scored.availableCount,
     withinBudgetCount |-> scored.withinBudgetCount,
     averageOverallScore |-> scored.averageOverallScore,
     topDomain |-> scored.topDomain,
     topScore |-> scored.topScore]

\* the classes of thrown values that mapErrorToJobError tells apart
ErrorClasses == {"NamelixScrapeError", "GoDaddyAuthError", "GoDaddyRateLimitError",
                 "GoDaddyApiError", "Error", "NonError"}

\* a mapErrorToJobError that has no code for a thrown value that is no Error
mapErrorToJobErrorUnmapped(error) ==
    IF error.class = "NamelixScrapeError"
    THEN [code |-> "NAMELIX_SCRAPE_FAILED", message |-> error.message]
    ELSE IF error.class = "GoDaddyAuthError"
    THEN [code |-> "GODADDY_AUTH_FAILED", message |-> error.message]
    ELSE IF error.class = "GoDaddyRateLimitError"
    THEN [code |-> "GODADDY_RATE_LIMIT", message |-> error.message]
    ELSE IF error.class = "GoDaddyApiError"
    THEN [code |-> "GODADDY_API_ERROR", message |-> error.message]
    ELSE IF error.class = "Error"
    THEN [code |-> "INTERNAL_ERROR", message |-> error.message]
    ELSE [code |-> "UNKNOWN", message |-> ""]

\* mapErrorToJobError
mapErrorToJobError(error) ==
    IF error.class = "NamelixScrapeError"
    THEN [code |-> "NAMELIX_SCRAPE_FAILED", message |-> error.message]
    ELSE IF error.class = "GoDaddyAuthError"
    THEN [code |-> "GODADDY_AUTH_FAILED", message |-> error.message]
    ELSE IF error.class = "GoDaddyRateLimitError"
    THEN [code |-> "GODADDY_RATE_LIMIT", message |-> error.message]
    ELSE IF error.class = "GoDaddyApiError"
    THEN [code |-> "GODADDY_API_ERROR", message |-> error.message]
    ELSE IF error.class = "Error"
    THEN [code |-> "INTERNAL_ERROR", message |-> error.message]
    ELSE [code |-> "INTERNAL_ERROR",
          message |-> "Unexpected unknown error occurred during search execution."]

\* getLivePhase
getLivePhase(batchCount) == IF batchCount = 0 THEN "namelix" ELSE "godaddy"

-----------------------------------------------------------------------------
(* lib/types.ts and lib/search/optimizer.ts                                *)

STYLE_VALUES == <<"default", "brandable", "twowords", "threewords", "compound",
                  "spelling", "nonenglish", "dictionary">>
RANDOMNESS_VALUES == <<"low", "medium", "high">>
MUTATION_INTENSITY_VALUES == <<"low", "medium", "high">>

MODEL_VERSION == 1
\* the exploration probabilities, in percent
STYLE_EPSILON == 24
RANDOMNESS_EPSILON == 24
MUTATION_EPSILON == 28

MaxLearningTokens == 12
MaxPositiveTokens == 12
MaxWeakTokens == 20
MaxMutatedTokens == 8
MaxDescriptionTokens == 10
MaxStoredTokens == 300

\* createBanditRecord
createBanditRecord(arms) == [arm \in Range(arms) |-> createArmStats]

\* createDefaultOptimizerModelState; tokenStats is the sequence of the
\* object's entries in insertion order (updatedAt is not modelled)
createDefaultOptimizerModelState ==
    [version |-> MODEL_VERSION,
     runCount |-> 0,
     styleBandit |-> createBanditRecord(STYLE_VALUES),
     randomnessBandit |-> createBanditRecord(RANDOMNESS_VALUES),
     mutationBandit |-> createBanditRecord(MUTATION_INTENSITY_VALUES),
     tokenStats |-> <<>>]

\* the arms chooseArm returns when it does not explore: an arm of maximal
\* average reward, any of them when several tie (a coin flip per tie)
chooseArmExploit(bandit, arms) ==
    {a \in Range(arms) :
        \A b \in Range(arms) : averageRewardDifference(bandit[b], bandit[a]) <= 0}

\* chooseArm: the arms it can return; the random source is seeded from the
\* clock, so an exploring draw can return any arm
chooseArm(bandit, arms, epsilon) ==
    (IF epsilon > 0 THEN Range(arms) ELSE {}) \cup chooseArmExploit(bandit, arms)

\* updateArmStats
updateArmStats(stats, reward) ==
    [plays |-> stats.plays + 1, reward |-> stats.reward + reward]

\* tokenizeAndLimit
tokenizeAndLimit(input) ==
    LET tokens == tokenizeForLearning(input)
    IN  SubSeq(tokens, 1, Min2(MaxLearningTokens, Len(tokens)))

RemoveAt(s, i) == SubSeq(s, 1, i - 1) \o SubSeq(s, i + 1, Len(s))

\* one iteration of the mutation loop of mutateTokenSet: the token lists it
\* can produce from next
MutateOnce(next, baseTokens, positiveTokens, weakTokens) ==
    LET weak == {i \in 1..Len(next) : next[i] \in weakTokens}
        removed ==
            IF Len(next) > 2
            THEN IF weak # {}
                 THEN {RemoveAt(next, CHOOSE i \in weak : \A k \in weak : i <= k)}
                 ELSE {RemoveAt(next, i) : i \in 1..Len(next)}
            ELSE {next}
        pools == IF positiveTokens # <<>> THEN {positiveTokens, baseTokens}
                 ELSE {baseTokens}
        candidates == UNION {Range(pool) : pool \in pools}
    IN  UNION {
            (IF \E pool \in pools : pool = <<>> THEN {r} ELSE {})
            \cup {IF c \in Range(r) THEN r ELSE Append(r, c) : c \in candidates}
            : r \in removed}

RECURSIVE MutateTimes(_, _, _, _, _)
MutateTimes(starts, n, baseTokens, positiveTokens, weakTokens) ==
    IF n = 0 THEN starts
    ELSE MutateTimes(
             UNION {MutateOnce(t, baseTokens, positiveTokens, weakTokens) : t \in starts},
             n - 1, baseTokens, positiveTokens, weakTokens)

\* the orders next.sort(() => random() > 0.5 ? 1 : -1) can leave
ShuffledOrders(s) ==
    {[i \in 1..Len(s) |-> s[f[i]]] :
        f \in {g \in [1..Len(s) -> 1..Len(s)] :
                  \A i, j \in 1..Len(s) : i # j => g[i] # g[j]}}

\* mutateTokenSet: the token lists it can return
mutateTokenSet(currentTokens, mutationIntensity, baseTokens, positiveTokens, weakTokens) ==
    LET maxMutations == IF mutationIntensity = "high" THEN 3
                        ELSE IF mutationIntensity = "medium" THEN 2 ELSE 1
        mutated == MutateTimes({currentTokens}, maxMutations,
                               baseTokens, positiveTokens, weakTokens)
        ordered == UNION {IF mutationIntensity = "high" /\ Len(t) > 3
                          THEN ShuffledOrders(t) ELSE {t} : t \in mutated}
    IN  {SubSeq(t, 1, Min2(MaxMutatedTokens, Len(t))) : t \in ordered}

RECURSIVE Join(_)
\* tokens.join(" ")
Join(tokens) ==
    IF tokens = <<>> THEN <<>>
    ELSE IF Len(tokens) = 1 THEN tokens[1]
    ELSE tokens[1] \o <<" ">> \o Join(Tail(tokens))

\* summarizeDescription
summarizeDescription(tokens, fallback) ==
    IF tokens = <<>> THEN fallback
    ELSE Join(SubSeq(tokens, 1, Min2(MaxDescriptionTokens, Len(tokens))))

NoLoop == 0
NoReward == 0 - 1

\* new DomainSearchOptimizer(baseInput, modelState)
NewOptimizer(baseInput, modelState) ==
    [model |-> modelState,
     baseInput |-> baseInput,
     currentKeywordTokens |-> tokenizeAndLimit(baseInput.keywords),
     currentDescriptionTokens |-> tokenizeAndLimit(baseInput.description),
     bestLoop |-> NoLoop,
     bestReward |-> NoReward]

\* DomainSearchOptimizer.nextLoop: the pairs (plan, optimizer after the call)
\* it can produce
nextLoop(optimizer, loop) ==
    LET rankedTokens == StableSort(optimizer.model.tokenStats, "averageRewardDescending")
        positiveAll == FilterSeq(rankedTokens,
                           {e \in Range(rankedTokens) : e.plays > 0 /\ e.reward >= 58 * e.plays})
        weakAll == FilterSeq(rankedTokens,
                           {e \in Range(rankedTokens) : e.plays > 0 /\ e.reward <= 40 * e.plays})
        positiveTokens == [i \in 1..Min2(MaxPositiveTokens, Len(positiveAll)) |->
                              positiveAll[i].token]
        weakTokens == {weakAll[i].token : i \in 1..Min2(MaxWeakTokens, Len(weakAll))}
        baseKeywordTokens == tokenizeAndLimit(optimizer.baseInput.keywords)
        baseDescriptionTokens == tokenizeAndLimit(optimizer.baseInput.description)
        keywordOutcomes(mutation) ==
            mutateTokenSet(
                IF optimizer.currentKeywordTokens # <<>>
                THEN optimizer.currentKeywordTokens ELSE baseKeywordTokens,
                mutation,
                IF baseKeywordTokens # <<>> THEN baseKeywordTokens
                ELSE <<<<"b","r","a","n","d">>, <<"c","o","m","p","a","n","y">>>>,
                positiveTokens, weakTokens)
        descriptionOutcomes(mutation) ==
            mutateTokenSet(
                IF optimizer.currentDescriptionTokens # <<>>
                THEN optimizer.currentDescriptionTokens ELSE baseDescriptionTokens,
                mutation,
                IF baseDescriptionTokens # <<>> THEN baseDescriptionTokens
                ELSE baseKeywordTokens,
                positiveTokens, weakTokens)
        outcome(style, randomness, mutation, kw, ds) ==
            [plan |->
                 [loop |-> loop,
                  sourceLoop |-> optimizer.bestLoop,
                  selectedStyle |-> style,
                  selectedRandomness |-> randomness,
                  selectedMutationIntensity |-> mutation,
                  input |-> [optimizer.baseInput EXCEPT
                      !.style = style,
                      !.randomness = randomness,
                      !.keywords = IF Len(StripEdges(Join(kw), Whitespace)) >= 2
                                   THEN StripEdges(Join(kw), Whitespace)
                                   ELSE optimizer.baseInput.keywords,
                      !.description =
                          summarizeDescription(ds, optimizer.baseInput.description)]],
             optimizer |->
                 [optimizer EXCEPT !.currentKeywordTokens = kw,
                                   !.currentDescriptionTokens = ds]]
    IN  UNION {
            {outcome(style, randomness, mutation, kw, ds) :
                style \in chooseArm(optimizer.model.styleBandit, STYLE_VALUES,
                                    STYLE_EPSILON),
                randomness \in chooseArm(optimizer.model.randomnessBandit,
                                         RANDOMNESS_VALUES, RANDOMNESS_EPSILON),
                kw \in keywordOutcomes(mutation),
                ds \in descriptionOutcomes(mutation)} :
            mutation \in chooseArm(optimizer.model.mutationBandit,
                                   MUTATION_INTENSITY_VALUES, MUTATION_EPSILON)}

\* a JavaScript number: a finite one, in hundredths, or NaN or an infinity
Finite(hundredths) == [kind |-> "finite", hundredths |-> hundredths]
NotFinite == {[kind |-> kind, hundredths |-> 0] : kind \in {"NaN", "Infinity", "-Infinity"}}

\* a reward accumulated as it came
KeepReward(reward) == IF reward.kind = "finite" THEN reward.hundredths ELSE 0

\* Number.isFinite(reward) ? Math.min(1, Math.max(0, reward)) : 0
BoundReward(reward) ==
    IF reward.kind = "finite" THEN Min2(100, Max2(0, reward.hundredths)) ELSE 0

\* the tokens tokenizeText can produce that name a property every object
\* inherits: tokenStats[token] is then Object.prototype's value, which is
\* truthy, unless the object has an entry of its own under that key
InheritedKeys == {<<"c", "o", "n", "s", "t", "r", "u", "c", "t", "o", "r">>}

RECURSIVE UpdateTokenStats(_, _, _)
\* the token loop of recordReward; for an inherited key without an entry of
\* its own no entry is created and the update lands outside the model
UpdateTokenStats(tokenStats, tokens, reward) ==
    IF tokens = <<>> THEN tokenStats
    ELSE LET token == Head(tokens)
             known == \/ \E i \in 1..Len(tokenStats) : tokenStats[i].token = token
                      \/ token \in InheritedKeys
             withToken == IF known THEN tokenStats
                          ELSE Append(tokenStats, [token |-> token, plays |-> 0, reward |-> 0])
         IN  UpdateTokenStats(
                 [i \in 1..Len(withToken) |->
                     IF withToken[i].token = token
                     THEN [withToken[i] EXCEPT !.plays = @ + 1, !.reward = @ + reward]
                     ELSE withToken[i]],
                 Tail(tokens), reward)

\* a recordReward that returns the tuning step without updating the bandits
recordRewardDropped(optimizer, plan, reward) ==
    [optimizer |-> optimizer,
     tuningStep |->
         [loop |-> plan.loop,
          sourceLoop |-> plan.sourceLoop,
          keywords |-> plan.input.keywords,
          description |-> plan.input.description,
          selectedStyle |-> plan.selectedStyle,
          selectedRandomness |-> plan.selectedRandomness,
          selectedMutationIntensity |-> plan.selectedMutationIntensity,
          reward |-> BoundReward(reward)]]

\* DomainSearchOptimizer.recordReward: the optimizer after the call and the
\* tuning step it returns
recordReward(optimizer, plan, reward) ==
    LET Recorded(boundedReward, tokens) ==
            [optimizer |->
                 [optimizer EXCEPT
                     !.model.styleBandit[plan.selectedStyle] =
                         updateArmStats(@, boundedReward),
                     !.model.randomnessBandit[plan.selectedRandomness] =
                         updateArmStats(@, boundedReward),
                     !.model.mutationBandit[plan.selectedMutationIntensity] =
                         updateArmStats(@, boundedReward),
                     !.model.tokenStats = UpdateTokenStats(@, tokens, boundedReward),
                     !.bestReward = IF boundedReward >= @ THEN boundedReward ELSE @,
                     !.bestLoop = IF boundedReward >= optimizer.bestReward THEN plan.loop
                                  ELSE @],
             tuningStep |->
                 [loop |-> plan.loop,
                  sourceLoop |-> plan.sourceLoop,
                  keywords |-> plan.input.keywords,
                  description |-> plan.input.description,
                  selectedStyle |-> plan.selectedStyle,
                  selectedRandomness |-> plan.selectedRandomness,
                  selectedMutationIntensity |-> plan.selectedMutationIntensity,
                  reward |-> boundedReward]]
    IN  Recorded(BoundReward(reward),
                 tokenizeAndLimit(plan.input.keywords \o <<" ">> \o plan.input.description))

\* DomainSearchOptimizer.snapshotModelState: the optimizer after the call (its
\* model is the state returned)
snapshotModelState(optimizer) ==
    LET sorted == StableSort(optimizer.model.tokenStats, "averageRewardDescending")
    IN  [optimizer EXCEPT
            !.model.tokenStats = SubSeq(sorted, 1, Min2(MaxStoredTokens, Len(sorted))),
            !.model.runCount = @ + 1]

\* sanitizeArmStats
sanitizeArmStats(value) ==
    IF value.plays >= 0 THEN [plays |-> value.plays, reward |-> value.reward]
    ELSE createArmStats

\* sanitizeBanditRecord
sanitizeBanditRecord(source, arms) ==
    [arm \in Range(arms) |->
        IF arm \in DOMAIN source THEN sanitizeArmStats(source[arm]) ELSE createArmStats]

MaxTokenKeyLength == 32

\* sanitizeOptimizerModelState, for a source that is an object
sanitizeOptimizerModelState(source) ==
    LET kept == FilterSeq(source.tokenStats,
                    {e \in Range(source.tokenStats) :
                        e.token # <<>> /\ Len(e.token) <= MaxTokenKeyLength})
    IN  [version |-> MODEL_VERSION,
         runCount |-> source.runCount,
         styleBandit |-> sanitizeBanditRecord(source.styleBandit, STYLE_VALUES),
         randomnessBandit |-> sanitizeBanditRecord(source.randomnessBandit, RANDOMNESS_VALUES),
         mutationBandit |->
             sanitizeBanditRecord(source.mutationBandit, MUTATION_INTENSITY_VALUES),
         tokenStats |->
             [i \in 1..Len(kept) |->
                 [token |-> kept[i].token,
                  plays |-> sanitizeArmStats(kept[i]).plays,
                  reward |-> sanitizeArmStats(kept[i]).reward]]]

-----------------------------------------------------------------------------
(* lib/search/optimizer.ts: the seeded random source.  A 32-bit word is the *)
(* pair of its 16-bit halves                                                *)

Word(hi, lo) == [hi |-> hi, lo |-> lo]

\* seed >>> 0, for a seed in 0..2^31-1
ToWord(n) == Word(n \div 65536, n % 65536)

RECURSIVE Xor16(_, _)
Xor16(x, y) ==
    IF x = 0 THEN y
    ELSE IF y = 0 THEN x
    ELSE ((x + y) % 2) + 2 * Xor16(x \div 2, y \div 2)

RECURSIVE Or16(_, _)
Or16(x, y) ==
    IF x = 0 THEN y
    ELSE IF y = 0 THEN x
    ELSE (IF x % 2 = 1 \/ y % 2 = 1 THEN 1 ELSE 0) + 2 * Or16(x \div 2, y \div 2)

\* a ^ b
XorWord(a, b) == Word(Xor16(a.hi, b.hi), Xor16(a.lo, b.lo))

\* a | n, for n < 65536
OrWord(a, n) == Word(a.hi, Or16(a.lo, n))

\* (a + b) | 0
AddWord(a, b) ==
    Word((a.hi + b.hi + ((a.lo + b.lo) \div 65536)) % 65536, (a.lo + b.lo) % 65536)

\* a >>> k, for 0 < k < 16
ShiftRight(a, k) ==
    Word(a.hi \div (2 ^ k), (a.lo \div (2 ^ k)) + (a.hi % (2 ^ k)) * (2 ^ (16 - k)))

\* the low 16 bits of x * y, for x and y below 65536
MulLow16(x, y) ==
    (((((x \div 256) * (y % 256)) + ((x % 256) * (y \div 256))) % 256) * 256
        + (x % 256) * (y % 256)) % 65536

\* Math.imul(a, b)
Imul(a, b) ==
    LET low == ((a.lo \div 256) * (b.lo % 256) + (a.lo % 256) * (b.lo \div 256)) * 256
                   + (a.lo % 256) * (b.lo % 256)
        carry == (low \div 65536) + (a.lo \div 256) * (b.lo \div 256)
    IN  Word((carry + MulLow16(a.hi, b.lo) + MulLow16(a.lo, b.hi)) % 65536, low % 65536)

\* 0x6d2b79f5
Increment == Word(27947, 31221)

\* one call of the function mulberry32 returns: the state it leaves and the
\* word whose 2^-32 multiple it returns.  The source keeps state as a number
\* it never truncates; the bitwise operators read it modulo 2^32, so the two
\* agree while the number is exact, that is for the first millions of calls
mulberry32(state) ==
    LET Mixed(first) ==
            LET second ==
                    XorWord(first,
                            AddWord(first,
                                    Imul(XorWord(first, ShiftRight(first, 7)),
                                         OrWord(first, 61))))
            IN  XorWord(second, ShiftRight(second, 14))
        Stepped(next) ==
            [state |-> next,
             value |-> Mixed(Imul(XorWord(next, ShiftRight(next, 15)), OrWord(next, 1)))]
    IN  Stepped(AddWord(state, Increment))

\* random() < percent / 100, for the value a word stands for
BelowPercent(word, percent) ==
    100 * word.hi + ((100 * word.lo) \div 65536) < percent * 65536

\* random() > percent / 100
AbovePercent(word, percent) ==
    \/ 100 * word.hi + ((100 * word.lo) \div 65536) > percent * 65536
    \/ /\ 100 * word.hi + ((100 * word.lo) \div 65536) = percent * 65536
       /\ (100 * word.lo) % 65536 > 0

\* Math.floor(random() * length)
FloorTimes(word, length) == (length * word.hi + ((length * word.lo) \div 65536)) \div 65536

-----------------------------------------------------------------------------
(* lib/search/optimizer.ts: a DomainSearchOptimizer with its own random     *)
(* source.  The optimizer's field random is the state of the closure        *)
(* mulberry32(seed) returned; every operator returns the state it leaves    *)

\* In the operators below a value that is used more than once is bound by
\* v \in {value}, so that it is computed once: "CHOOSE r \in {F(v) : v \in
\* {value}} : TRUE" is F(value)

RECURSIVE BestArmFirst(_, _, _, _, _)
\* a loop that keeps the first of the arms that tie
BestArmFirst(bandit, arms, i, best, state) ==
    IF i > Len(arms) THEN [arm |-> best, state |-> state]
    ELSE IF best = "" \/ averageRewardDifference(bandit[arms[i]], bandit[best]) > 0
    THEN BestArmFirst(bandit, arms, i + 1, arms[i], state)
    ELSE BestArmFirst(bandit, arms, i + 1, best, state)

RECURSIVE BestArm(_, _, _, _, _)
\* the loop of chooseArm from arms[i] on; best is "" before arms[1]
BestArm(bandit, arms, i, best, state) ==
    IF i > Len(arms) THEN [arm |-> best, state |-> state]
    ELSE IF best = "" \/ averageRewardDifference(bandit[arms[i]], bandit[best]) > 0
    THEN BestArm(bandit, arms, i + 1, arms[i], state)
    ELSE IF averageRewardDifference(bandit[arms[i]], bandit[best]) = 0
    THEN CHOOSE r \in
             {BestArm(bandit, arms, i + 1,
                      IF AbovePercent(drawn.value, 50) THEN arms[i] ELSE best,
                      drawn.state) : drawn \in {mulberry32(state)}} : TRUE
    ELSE BestArm(bandit, arms, i + 1, best, state)

\* chooseArm(bandit, arms, epsilon, random)
chooseArmWith(bandit, arms, epsilon, state) ==
    CHOOSE r \in
        {IF BelowPercent(first.value, epsilon)
         THEN CHOOSE e \in
                  {[arm |-> arms[FloorTimes(second.value, Len(arms)) + 1],
                    state |-> second.state] : second \in {mulberry32(first.state)}} : TRUE
         ELSE BestArm(bandit, arms, 1, "", first.state) :
            first \in {mulberry32(state)}} : TRUE

\* the removal of one iteration of the mutation loop of mutateTokenSet
RemoveOnceWith(next, weakTokens, state) ==
    IF Len(next) <= 2 THEN [tokens |-> next, state |-> state]
    ELSE IF \E i \in 1..Len(next) : next[i] \in weakTokens
    THEN [tokens |->
              RemoveAt(next, CHOOSE i \in 1..Len(next) :
                                 /\ next[i] \in weakTokens
                                 /\ \A k \in 1..(i - 1) : next[k] \notin weakTokens),
          state |-> state]
    ELSE CHOOSE r \in
             {[tokens |-> RemoveAt(next, FloorTimes(drawn.value, Len(next)) + 1),
               state |-> drawn.state] : drawn \in {mulberry32(state)}} : TRUE

\* the choice of tokenPool in that iteration
PoolWith(baseTokens, positiveTokens, state) ==
    IF positiveTokens = <<>> THEN [tokens |-> baseTokens, state |-> state]
    ELSE CHOOSE r \in
             {[tokens |-> IF AbovePercent(drawn.value, 20) THEN positiveTokens
                          ELSE baseTokens,
               state |-> drawn.state] : drawn \in {mulberry32(state)}} : TRUE

\* the choice of the candidate and its push
PushWith(removed, tokenPool, state) ==
    CHOOSE r \in
        {[tokens |->
              IF tokenPool = <<>> THEN removed
              ELSE IF tokenPool[FloorTimes(drawn.value, Len(tokenPool)) + 1]
                          \in Range(removed)
              THEN removed
              ELSE Append(removed, tokenPool[FloorTimes(drawn.value, Len(tokenPool)) + 1]),
          state |-> drawn.state] : drawn \in {mulberry32(state)}} : TRUE

\* one iteration of the mutation loop of mutateTokenSet
MutateOnceWith(next, baseTokens, positiveTokens, weakTokens, state) ==
    CHOOSE r \in
        {CHOOSE p \in
             {PushWith(removed.tokens, tokenPool.tokens, tokenPool.state) :
                 tokenPool \in {PoolWith(baseTokens, positiveTokens, removed.state)}} : TRUE :
            removed \in {RemoveOnceWith(next, weakTokens, state)}} : TRUE

RECURSIVE MutateTimesWith(_, _, _, _, _, _)
MutateTimesWith(next, n, baseTokens, positiveTokens, weakTokens, state) ==
    IF n = 0 THEN [tokens |-> next, state |-> state]
    ELSE CHOOSE r \in
             {MutateTimesWith(once.tokens, n - 1, baseTokens, positiveTokens, weakTokens,
                              once.state) :
                 once \in {MutateOnceWith(next, baseTokens, positiveTokens, weakTokens,
                                          state)}} : TRUE

\* the comparator of the shuffle, for the value random() returned:
\* random() > 0.5 ? 1 : -1
Order(drawn) == IF AbovePercent(drawn.value, 50) THEN 1 ELSE 0 - 1

RECURSIVE RunLength(_, _, _, _, _)
\* the loop with which the engine's sort counts the run the array starts
\* with, from the element at index idx (counted from 1) on
RunLength(high, idx, isDescending, runLength, state) ==
    IF idx > high THEN [length |-> runLength, state |-> state]
    ELSE CHOOSE r \in
             {IF (isDescending /\ Order(drawn) >= 0) \/ (~isDescending /\ Order(drawn) < 0)
              THEN [length |-> runLength, state |-> drawn.state]
              ELSE RunLength(high, idx + 1, isDescending, runLength + 1, drawn.state) :
                 drawn \in {mulberry32(state)}} : TRUE

RECURSIVE InsertionPoint(_, _, _)
\* the binary search of the engine's insertion sort, over positions counted
\* from 0
InsertionPoint(left, right, state) ==
    IF left >= right THEN [left |-> left, state |-> state]
    ELSE CHOOSE r \in
             {IF Order(drawn) < 0
              THEN InsertionPoint(left, left + ((right - left) \div 2), drawn.state)
              ELSE InsertionPoint(left + ((right - left) \div 2) + 1, right, drawn.state) :
                 drawn \in {mulberry32(state)}} : TRUE

RECURSIVE InsertFrom(_, _, _)
\* the engine's binary insertion sort from position start (counted from 0) on
InsertFrom(array, start, state) ==
    IF start >= Len(array) THEN [tokens |-> array, state |-> state]
    ELSE CHOOSE r \in
             {InsertFrom(
                  SubSeq(array, 1, point.left) \o <<array[start + 1]>>
                      \o SubSeq(array, point.left + 1, start)
                      \o SubSeq(array, start + 2, Len(array)),
                  start + 1, point.state) :
                 point \in {InsertionPoint(0, start, state)}} : TRUE

\* array.reverse()
Reversed(array) == [i \in 1..Len(array) |-> array[Len(array) + 1 - i]]

\* next.sort(() => (random() > 0.5 ? 1 : -1)) for an array of 2 to 63 tokens.
\* The language leaves the order such a comparator gives to the engine; this
\* is the engine's sort for short arrays: it counts the run the array starts
\* with (reversing it when it descends) and inserts the rest by binary search
Shuffle(array, state) ==
    CHOOSE r \in
        {CHOOSE s \in
             {InsertFrom(
                  (IF Order(drawn) < 0 THEN Reversed(SubSeq(array, 1, run.length))
                   ELSE SubSeq(array, 1, run.length))
                      \o SubSeq(array, run.length + 1, Len(array)),
                  run.length, run.state) :
                 run \in {RunLength(Len(array), 3, Order(drawn) < 0, 2, drawn.state)}} : TRUE :
            drawn \in {mulberry32(state)}} : TRUE

\* mutateTokenSet(currentTokens, mutationIntensity, baseTokens, positiveTokens,
\* weakTokens, random)
mutateTokenSetWith(currentTokens, mutationIntensity, baseTokens, positiveTokens, weakTokens, state) ==
    CHOOSE r \in
        {CHOOSE s \in
             {[tokens |-> SubSeq(ordered.tokens, 1,
                                 Min2(MaxMutatedTokens, Len(ordered.tokens))),
               state |-> ordered.state] :
                 ordered \in {IF mutationIntensity = "high" /\ Len(mutated.tokens) > 3
                              THEN Shuffle(mutated.tokens, mutated.state)
                              ELSE mutated}} : TRUE :
            mutated \in {MutateTimesWith(currentTokens,
                                         IF mutationIntensity = "high" THEN 3
                                         ELSE IF mutationIntensity = "medium" THEN 2 ELSE 1,
                                         baseTokens, positiveTokens, weakTokens, state)}} : TRUE

\* a constructor that keeps the object it was given
GivenModel(heap, modelState) == [heap |-> heap, model |-> modelState]

\* this.model = sanitizeOptimizerModelState(modelState), on a heap of model
\* objects: the object this.model refers to is a new one, as are the bandits,
\* the arm statistics and the token table in it
OwnModel(heap, modelState) ==
    [heap |-> Append(heap, sanitizeOptimizerModelState(heap[modelState])),
     model |-> Len(heap) + 1]

\* new DomainSearchOptimizer(baseInput, modelState, seed), with the model
\* object this.model refers to
SeededOptimizer(baseInput, model, seed) ==
    [model |-> model,
     random |-> ToWord(seed),
     baseInput |-> baseInput,
     currentKeywordTokens |-> tokenizeAndLimit(baseInput.keywords),
     currentDescriptionTokens |-> tokenizeAndLimit(baseInput.description),
     bestLoop |-> NoLoop,
     bestReward |-> NoReward]

\* the tokens nextLoop ranks as positive and as weak
RankedTokens(tokenStats) ==
    CHOOSE r \in
        {[positiveTokens |->
              CHOOSE p \in
                  {[i \in 1..Min2(MaxPositiveTokens, Len(positiveAll)) |->
                       positiveAll[i].token] :
                      positiveAll \in
                          {FilterSeq(rankedTokens,
                               {e \in Range(rankedTokens) :
                                   e.plays > 0 /\ e.reward >= 58 * e.plays})}} : TRUE,
          weakTokens |->
              CHOOSE w \in
                  {{weakAll[i].token : i \in 1..Min2(MaxWeakTokens, Len(weakAll))} :
                      weakAll \in
                          {FilterSeq(rankedTokens,
                               {e \in Range(rankedTokens) :
                                   e.plays > 0 /\ e.reward <= 40 * e.plays})}} : TRUE] :
            rankedTokens \in {StableSort(tokenStats, "averageRewardDescending")}} : TRUE

\* the three arms nextLoop selects, and the random source after them
ArmsWith(model, state) ==
    CHOOSE r \in
        {CHOOSE s \in
             {CHOOSE t \in
                  {[style |-> style.arm, randomness |-> randomness.arm,
                    mutation |-> mutation.arm, state |-> mutation.state] :
                      mutation \in {chooseArmWith(model.mutationBandit,
                                                  MUTATION_INTENSITY_VALUES,
                                                  MUTATION_EPSILON, randomness.state)}} : TRUE :
                 randomness \in {chooseArmWith(model.randomnessBandit, RANDOMNESS_VALUES,
                                               RANDOMNESS_EPSILON, style.state)}} : TRUE :
            style \in {chooseArmWith(model.styleBandit, STYLE_VALUES, STYLE_EPSILON,
                                     state)}} : TRUE

\* the keyword and description tokens nextLoop mutates to, and the random
\* source after them
TokensWith(currentKeywordTokens, currentDescriptionTokens, baseKeywordTokens, baseDescriptionTokens, mutation, ranked, state) ==
    CHOOSE r \in
        {CHOOSE s \in
             {[keywords |-> kw.tokens, description |-> ds.tokens, state |-> ds.state] :
                 ds \in {mutateTokenSetWith(
                             IF currentDescriptionTokens # <<>>
                             THEN currentDescriptionTokens ELSE baseDescriptionTokens,
                             mutation,
                             IF baseDescriptionTokens # <<>> THEN baseDescriptionTokens
                             ELSE baseKeywordTokens,
                             ranked.positiveTokens, ranked.weakTokens, kw.state)}} : TRUE :
            kw \in {mutateTokenSetWith(
                        IF currentKeywordTokens # <<>>
                        THEN currentKeywordTokens ELSE baseKeywordTokens,
                        mutation,
                        IF baseKeywordTokens # <<>> THEN baseKeywordTokens
                        ELSE <<<<"b","r","a","n","d">>, <<"c","o","m","p","a","n","y">>>>,
                        ranked.positiveTokens, ranked.weakTokens, state)}} : TRUE

\* DomainSearchOptimizer.nextLoop with the optimizer's own random source: the
\* plan and the optimizer after the call
nextLoopWith(optimizer, loop) ==
    CHOOSE r \in
        {CHOOSE s \in
             {[plan |->
                   [loop |-> loop,
                    sourceLoop |-> optimizer.bestLoop,
                    selectedStyle |-> arms.style,
                    selectedRandomness |-> arms.randomness,
                    selectedMutationIntensity |-> arms.mutation,
                    input |-> [optimizer.baseInput EXCEPT
                        !.style = arms.style,
                        !.randomness = arms.randomness,
                        !.keywords =
                            IF Len(StripEdges(Join(tokens.keywords), Whitespace)) >= 2
                            THEN StripEdges(Join(tokens.keywords), Whitespace)
                            ELSE optimizer.baseInput.keywords,
                        !.description =
                            summarizeDescription(tokens.description,
                                                 optimizer.baseInput.description)]],
               optimizer |->
                   [optimizer EXCEPT !.currentKeywordTokens = tokens.keywords,
                                     !.currentDescriptionTokens = tokens.description,
                                     !.random = tokens.state]] :
                 tokens \in {TokensWith(optimizer.currentKeywordTokens,
                                        optimizer.currentDescriptionTokens,
                                        tokenizeAndLimit(optimizer.baseInput.keywords),
                                        tokenizeAndLimit(optimizer.baseInput.description),
                                        arms.mutation,
                                        RankedTokens(optimizer.model.tokenStats),
                                        arms.state)}} : TRUE :
            arms \in {ArmsWith(optimizer.model, optimizer.random)}} : TRUE

-----------------------------------------------------------------------------
(* lib/search/model-store.ts: the model file is <<>> when absent, else     *)
(* <<state>>                                                                *)

\* loadOptimizerModelState
loadOptimizerModelState(file) ==
    IF file = <<>> THEN createDefaultOptimizerModelState
    ELSE sanitizeOptimizerModelState(file[1])

\* saveOptimizerModelState: the file after the call; a failed write or rename
\* removes the temporary file and leaves the model file as it was
saveOptimizerModelState(file, state, written) ==
    IF written THEN <<sanitizeOptimizerModelState(state)>> ELSE file

-----------------------------------------------------------------------------
(* lib/jobs/store.ts: the registry is a function from the ids of the jobs  *)
(* it holds to their documents                                              *)

JOB_RETENTION_MS == 30 * 60 * 1000

\* the values of the optional fields that are undefined
NoTime == 0
NoCount == 0 - 1
NoPhase == "null"

\* createJob: the registry with the new job, whose id is a fresh UUID
createJob(registry, id, input, time) ==
    [j \in DOMAIN registry \cup {id} |->
        IF j = id
        THEN [id |-> id,
              status |-> "queued",
              phase |-> NoPhase,
              progress |-> 0,
              input |-> input,
              createdAt |-> time,
              updatedAt |-> time,
              startedAt |-> NoTime,
              completedAt |-> NoTime,
              currentLoop |-> NoCount,
              totalLoops |-> NoCount,
              results |-> <<>>,
              error |-> <<>>]
        ELSE registry[j]]

\* a patchJob that lets the patch replace every field
patchJobSpread(registry, id, patch, time) ==
    IF id \notin DOMAIN registry THEN registry
    ELSE LET job == registry[id]
         IN  [registry EXCEPT ![id] =
                 [f \in DOMAIN job |->
                     IF f = "updatedAt" THEN time
                     ELSE IF f \in DOMAIN patch THEN patch[f]
                     ELSE job[f]]]

\* patchJob
patchJob(registry, id, patch, time) ==
    IF id \notin DOMAIN registry THEN registry
    ELSE LET job == registry[id]
         IN  [registry EXCEPT ![id] =
                 [f \in DOMAIN job |->
                     IF f \in {"id", "input"} THEN job[f]
                     ELSE IF f = "updatedAt" THEN time
                     ELSE IF f \in DOMAIN patch THEN patch[f]
                     ELSE job[f]]]

\* markJobRunning
markJobRunning(registry, id, phase, progress, time) ==
    IF id \notin DOMAIN registry THEN registry
    ELSE [registry EXCEPT ![id] =
             [@ EXCEPT !.status = "running",
                       !.phase = phase,
                       !.progress = progress,
                       !.startedAt = IF @ = NoTime THEN time ELSE @,
                       !.updatedAt = time]]

\* a markJobComplete that stores the results and leaves the status alone
markJobCompleteUnmarked(registry, id, results, time) ==
    patchJob(registry, id,
             [phase |-> "finalize", progress |-> 100,
              results |-> <<results>>, completedAt |-> time, error |-> <<>>],
             time)

\* markJobComplete
markJobComplete(registry, id, results, time) ==
    patchJob(registry, id,
             [status |-> "done", phase |-> "finalize", progress |-> 100,
              results |-> <<results>>, completedAt |-> time, error |-> <<>>],
             time)

\* a markJobFailed that puts the job back in the queue
markJobFailedRequeued(registry, id, error, time) ==
    patchJob(registry, id,
             [status |-> "queued", phase |-> NoPhase, error |-> <<error>>,
              completedAt |-> time],
             time)

\* a markJobFailed that also drops what the run had published
markJobFailedCleared(registry, id, error, time) ==
    patchJob(registry, id,
             [status |-> "failed", phase |-> NoPhase, error |-> <<error>>,
              completedAt |-> time, progress |-> 0, results |-> <<>>],
             time)

\* markJobFailed
markJobFailed(registry, id, error, time) ==
    patchJob(registry, id,
             [status |-> "failed", phase |-> NoPhase, error |-> <<error>>,
              completedAt |-> time],
             time)

\* a test that goes by the job's age alone
ExpiredByAge(job, time) == time - job.createdAt > JOB_RETENTION_MS

\* the test of cleanupExpiredJobs
Expired(job, time) ==
    /\ job.status \in {"done", "failed"}
    /\ job.completedAt # NoTime
    /\ time - job.completedAt > JOB_RETENTION_MS

\* cleanupExpiredJobs
cleanupExpiredJobs(registry, time) ==
    [j \in {k \in DOMAIN registry : ~Expired(registry[k], time)} |-> registry[j]]

-----------------------------------------------------------------------------
(* Bounds and the environment's answers                                     *)

MaxJobs == 1
MaxLoopCount == 2
MaxMaxNames == 2
\* maxNames + loopCount of a posted request
MaxRequestSize == 3
MaxTicks == 3

\* the clock advances in steps of twenty minutes
TickMs == 20 * 60 * 1000

\* the ids randomUUID hands out
JobIds == 1..MaxJobs

Nova == <<"N", "o", "v", "a">>
Pix == <<"P", "i", "x">>
Unusable == <<"!", "!">>

\* the validated requests a search is posted with (budget in cents); the
\* second TLD passes the schema's pattern but does not survive normalizeTld
SearchRequests ==
    {request \in
        {[keywords |-> <<"n", "o", "v", "a">>,
          description |-> <<>>,
          style |-> "default",
          randomness |-> "medium",
          maxLength |-> 5,
          tld |-> tld,
          maxNames |-> maxNames,
          yearlyBudget |-> 2000,
          loopCount |-> loopCount] :
            tld \in {<<"c", "o", "m">>, <<"c", "-">>},
            maxNames \in 1..MaxMaxNames,
            loopCount \in 1..MaxLoopCount} :
        request.maxNames + request.loopCount <= MaxRequestSize}

\* the logo lists a scrape can resolve to (never empty: scrapeNamelix throws
\* instead)
LogoLists ==
    {<<[businessName |-> Nova, name |-> "logo"]>>,
     <<[businessName |-> Nova, name |-> "logo"], [businessName |-> Pix, name |-> "premium"]>>,
     <<[businessName |-> Unusable, name |-> "logo"]>>}

\* what the availability map can hold for a domain: taken (or missing), or
\* available at $1, at $1.999999, at $80, or without a price
AvailabilityOutcomes ==
    {[available |-> FALSE, definitive |-> TRUE, priceMicros |-> NoPrice]}
    \cup {[available |-> TRUE, definitive |-> TRUE, priceMicros |-> micros] :
             micros \in {1000000, 1999999, 80000000, NoPrice}}

NoError == [class |-> "none", message |-> ""]
ScrapeError == [class |-> "NamelixScrapeError", message |-> "Namelix scrape failed."]
InvalidTldError == [class |-> "Error", message |-> "Invalid TLD after normalization."]
\* what fetch itself can reject with inside requestAvailabilityChunk: a plain
\* Error (with or without a message) or a value that is no Error
TransportErrors ==
    {[class |-> "Error", message |-> "fetch failed"],
     [class |-> "Error", message |-> ""],
     [class |-> "NonError", message |-> "fetch failed"]}

\* the arms the bounded exploration lets nextLoop draw
ExploredStyles == {"default", "brandable"}
ExploredRandomness == {"medium"}
ExploredMutations == {"low"}

ExploredPlans(optimizer, loop) ==
    {o \in nextLoop(optimizer, loop) :
        /\ o.plan.selectedStyle \in ExploredStyles
        /\ o.plan.selectedRandomness \in ExploredRandomness
        /\ o.plan.selectedMutationIntensity \in ExploredMutations}

-----------------------------------------------------------------------------
(* lib/godaddy/client.ts                                                    *)

CHUNK_SIZE == 100
MAX_RETRIES == 4

\* a chunking that keeps the full chunks only
chunkDomainsFull(domains, chunkSize) ==
    [k \in 1..(Len(domains) \div chunkSize) |->
        SubSeq(domains, (k - 1) * chunkSize + 1, k * chunkSize)]

RECURSIVE ChunksFrom(_, _, _)
\* the loop of chunkDomains from index on: domains.slice(index, index +
\* chunkSize) is pushed while index < domains.length
ChunksFrom(domains, index, chunkSize) ==
    IF index < Len(domains)
    THEN <<SubSeq(domains, index + 1, Min2(index + chunkSize, Len(domains)))>>
         \o ChunksFrom(domains, index + chunkSize, chunkSize)
    ELSE <<>>

\* chunkDomains
chunkDomains(domains, chunkSize) == ChunksFrom(domains, 0, chunkSize)

\* a retry loop that also retries every other failure
RetryEveryFailure(responses) ==
    LET Answered(k) == k = MAX_RETRIES + 1 \/ responses[k].status \in 200..299
        last == CHOOSE k \in 1..(MAX_RETRIES + 1) :
                    Answered(k) /\ \A j \in 1..(k - 1) : ~Answered(j)
    IN  IF responses[last].status \in 200..299
        THEN [error |-> NoError, payload |-> <<responses[last]>>, requests |-> last]
        ELSE [error |-> [class |-> "GoDaddyRateLimitError",
                         message |-> "GoDaddy rate limit reached and retry attempts were exhausted."],
              payload |-> <<>>,
              requests |-> last]

RECURSIVE RequestAttempt(_, _)
\* the retry loop of requestAvailabilityChunk from the given attempt on;
\* responses are the provider's answers to the successive HTTP requests
RequestAttempt(responses, attempt) ==
    LET response == responses[attempt + 1]
    IN  IF response.status = 429
        THEN IF attempt >= MAX_RETRIES
             THEN [error |-> [class |-> "GoDaddyRateLimitError",
                              message |-> "GoDaddy rate limit reached and retry attempts were exhausted."],
                   payload |-> <<>>,
                   requests |-> attempt + 1]
             ELSE RequestAttempt(responses, attempt + 1)
        ELSE IF response.status \in {401, 403}
        THEN [error |-> [class |-> "GoDaddyAuthError",
                         message |-> "GoDaddy authentication failed with status ${response.status}."],
              payload |-> <<>>,
              requests |-> attempt + 1]
        ELSE IF response.status \notin 200..299
        THEN [error |-> [class |-> "GoDaddyApiError",
                         message |-> "GoDaddy availability request failed (${response.status}). ${responseBody}"],
              payload |-> <<>>,
              requests |-> attempt + 1]
        ELSE [error |-> NoError, payload |-> <<response>>, requests |-> attempt + 1]

\* requestAvailabilityChunk with credentials configured: what it throws or
\* returns, and the number of HTTP requests it sent
requestAvailabilityChunk(responses) == RequestAttempt(responses, 0)

\* Array.from(new Set(...)): the first occurrences of the elements of s that
\* are not in seen, in order (kept holds their indexes)
Distinct(s, seen) ==
    CHOOSE r \in
        {[k \in 1..Cardinality(kept) |->
             s[CHOOSE i \in kept : Cardinality({j \in kept : j <= i}) = k]] :
            kept \in {{i \in 1..Len(s) :
                          s[i] \notin seen /\ \A j \in 1..(i - 1) : s[j] # s[i]}}} : TRUE

\* the map entry for a domain of which no chunk's payload says anything, or
\* which a payload lists under errors
NoAvailability == [available |-> FALSE, definitive |-> FALSE, priceMicros |-> NoPrice]

\* the normalized domains of checkAvailabilityBulk: trimmed, lower-cased,
\* non-empty, first occurrences in order
NormalizedDomains(domains) ==
    Distinct([i \in 1..Len(domains) |->
                 toLowerCase(StripEdges(domains[i], Whitespace))], {<<>>})

\* the entry set for a domainInfo of a payload
InfoEntry(domainInfo) ==
    [domain |-> toLowerCase(domainInfo.domain),
     available |-> domainInfo.available,
     definitive |-> domainInfo.definitive,
     priceMicros |-> domainInfo.priceMicros,
     reason |-> "undefined"]

\* the entry set for an errorInfo of a payload
ErrorEntry(errorInfo) ==
    [domain |-> toLowerCase(errorInfo.domain),
     available |-> FALSE,
     definitive |-> FALSE,
     priceMicros |-> NoPrice,
     reason |-> errorInfo.message]

\* for (const domainInfo of payload.domains ?? []): the last entry set for a
\* key stays
SetInfos(map, infos) ==
    [k \in DOMAIN map \cup {toLowerCase(infos[i].domain) : i \in 1..Len(infos)} |->
        IF \E i \in 1..Len(infos) : toLowerCase(infos[i].domain) = k
        THEN InfoEntry(infos[CHOOSE i \in 1..Len(infos) :
                                 /\ toLowerCase(infos[i].domain) = k
                                 /\ \A j \in (i + 1)..Len(infos) :
                                        toLowerCase(infos[j].domain) # k])
        ELSE map[k]]

\* for (const errorInfo of payload.errors ?? [])
SetErrors(map, errors) ==
    [k \in DOMAIN map \cup {toLowerCase(errors[i].domain) : i \in 1..Len(errors)} |->
        IF \E i \in 1..Len(errors) : toLowerCase(errors[i].domain) = k
        THEN ErrorEntry(errors[CHOOSE i \in 1..Len(errors) :
                                   /\ toLowerCase(errors[i].domain) = k
                                   /\ \A j \in (i + 1)..Len(errors) :
                                          toLowerCase(errors[j].domain) # k])
        ELSE map[k]]

\* the task of a chunk after requestAvailabilityChunk has returned payload
SetPayload(map, payload) == SetErrors(SetInfos(map, payload.domains), payload.errors)

NoResponseReason == "No availability response returned for this domain."

\* a checkAvailabilityBulk that returns what the chunks have set
FillNothing(normalized, map) == map

\* the loop over normalized after Promise.all
FillMissing(normalized, map) ==
    [d \in DOMAIN map \cup Range(normalized) |->
        IF d \in DOMAIN map THEN map[d]
        ELSE [domain |-> d,
              available |-> FALSE,
              definitive |-> FALSE,
              priceMicros |-> NoPrice,
              reason |-> NoResponseReason]]

\* checkAvailabilityBulk: responses[k] are the provider's answers to the
\* requests of chunk k.  Promise.all rejects as soon as one chunk's task
\* throws; otherwise the map holds an entry for every normalised domain
checkAvailabilityBulk(domains, responses) ==
    LET normalized == NormalizedDomains(domains)
        Settled(chunks, results) ==
            IF \E k \in 1..Len(chunks) : results[k].error # NoError
            THEN [error |-> results[CHOOSE k \in 1..Len(chunks) :
                                       /\ results[k].error # NoError
                                       /\ \A j \in 1..(k - 1) : results[j].error = NoError].error,
                  resultMap |-> <<>>]
            ELSE [error |-> NoError,
                  resultMap |->
                      [d \in Range(normalized) |->
                          IF \E k \in 1..Len(chunks) : d \in results[k].payload[1].errors
                          THEN NoAvailability
                          ELSE IF \E k \in 1..Len(chunks) :
                                     d \in DOMAIN results[k].payload[1].domains
                          THEN LET k == CHOOSE k \in 1..Len(chunks) :
                                            d \in DOMAIN results[k].payload[1].domains
                               IN  [available |-> results[k].payload[1].domains[d].available,
                                    definitive |-> results[k].payload[1].domains[d].definitive,
                                    priceMicros |-> results[k].payload[1].domains[d].priceMicros]
                          ELSE NoAvailability]]
        Requested(chunks) ==
            Settled(chunks, [k \in 1..Len(chunks) |-> requestAvailabilityChunk(responses[k])])
    IN  Requested(chunkDomains(normalized, CHUNK_SIZE))

-----------------------------------------------------------------------------
(* lib/search/runner.ts: runSearchJob                                       *)

VARIABLES
    jobs,               \* the registry
    now,                \* Date.now()
    modelFile,          \* data/optimizer-state.json
    issuedIds,          \* the ids randomUUID has returned
    pc,                 \* where the run in flight stands
    settled,            \* the promise runSearchJob returned
    thrown,             \* the value the run's catch clause received
    found,              \* per loop of the run, the candidates that qualified
    modelCalls,         \* the run's calls of the model store, in order
    jobId, baseInput, modelState, optimizer, loop, plan,
    seenDomains, loopRawAvailable, consideredCount, batchCount, limitHit,
    stalledBatches, skipReason, freshCandidates, availabilityMap,
    aggregate, loopSummaries, tuningHistory

\* the file system under data/ and the runs that load and save the model
VARIABLES
    disk,               \* the inode each path of data/ names (NoInode: none)
    inodes,             \* the content of every inode created, by number
    runs,               \* per run: where it stands, its optimizer, its open file
    crashed             \* the process has exited

\* lib/rate-limit.ts: the two queues all jobs share, and the clock they read
VARIABLES
    clock,              \* Date.now() as the queues see it
    namelixLastRunAt,   \* the module's variable of that name
    namelixQueue,       \* namelixQueue: the calls added, waiting, and the one running
    namelixFinishedAt,  \* when the last generation task settled (NoTime: none has)
    scrape,             \* a call of scrapeNamelix: its attempt, its position, its log
    goDaddyQueue,       \* goDaddyQueue: the calls added and waiting, its interval
    goDaddyTasks,       \* the availability tasks the queue is running (a bag)
    requestLog,         \* the times of the HTTP requests sent to the provider
    provider            \* how the provider answers the requests

\* a call of one of the library's functions on its own: the function, its
\* arguments, whether it has returned, and what it returned or threw
VARIABLES
    call

vars == <<jobs, now, modelFile, issuedIds, pc, settled, thrown, found, modelCalls,
          jobId, baseInput, modelState, optimizer, loop, plan,
          seenDomains, loopRawAvailable, consideredCount, batchCount, limitHit,
          stalledBatches, skipReason, freshCandidates, availabilityMap,
          aggregate, loopSummaries, tuningHistory,
          disk, inodes, runs, crashed,
          clock, namelixLastRunAt, namelixQueue, namelixFinishedAt, scrape,
          goDaddyQueue, goDaddyTasks, requestLog, provider,
          call>>

storeVars == <<disk, inodes, runs, crashed>>
namelixVars == <<clock, namelixLastRunAt, namelixQueue, namelixFinishedAt, scrape>>
goDaddyVars == <<goDaddyQueue, goDaddyTasks, requestLog, provider>>

\* the state the runner's steps of this model leave alone
outside == <<storeVars, namelixVars, goDaddyVars, call>>

runLocals == <<baseInput, modelState, optimizer, loop, plan, aggregate,
               loopSummaries, tuningHistory>>
loopLocals == <<seenDomains, loopRawAvailable, consideredCount, batchCount, limitHit,
                stalledBatches, skipReason, freshCandidates, availabilityMap>>
environment == <<now, modelFile, issuedIds>>

NoPlan == [loop |-> NoLoop]
NoOptimizer == [bestLoop |-> NoLoop]
NoModelState == [runCount |-> NoCount]
NoInput == [loopCount |-> NoCount]

\* the places where runSearchJob is suspended or no run is in flight, so that
\* timers and the clock can advance
YieldPoints == {"idle", "loading", "scraping", "checking", "saving"}

\* lib/search/model-store.ts: the two paths under data/
MODEL_PATH == "optimizer-state.json"
TEMP_MODEL_PATH == "optimizer-state.tmp.json"

\* a path that names no file
NoInode == 0

\* the runs of runSearchJob that share the model file
StoreRuns == 2

\* a run that has not started
IdleRun ==
    [pc |-> "idle",
     optimizer |-> NoOptimizer,
     payload |-> <<>>,
     fd |-> NoInode,
     position |-> 0,
     caught |-> "none",
     status |-> "queued"]

\* data/ before the first save: no file
EmptyDisk == [path \in {MODEL_PATH, TEMP_MODEL_PATH} |-> NoInode]

\* lib/rate-limit.ts
NAMELIX_BASE_COOLDOWN_MS == 20000
NAMELIX_MAX_JITTER_MS == 5000
GODADDY_INTERVAL_CAP == 30
GODADDY_INTERVAL_MS == 60000
GODADDY_CONCURRENCY == 3

\* Date.now() when the process starts
ClockStart == 1000000

\* no run of the file-system model has started
StoreIdle ==
    /\ runs = [p \in 1..StoreRuns |-> IdleRun]
    /\ crashed = FALSE

\* what the provider answers a request with: the status and the retry-after
\* header in ms (NoCount: no header)
ProviderResponses ==
    {[status |-> 200, retryAfterMs |-> NoCount],
     [status |-> 429, retryAfterMs |-> 0],
     [status |-> 429, retryAfterMs |-> NoCount]}

\* scrapeNamelix before it is called
IdleScrape ==
    [pc |-> "idle", attempt |-> 0, wakeAt |-> NoTime, outcomes |-> <<>>,
     result |-> <<>>, error |-> NoError]

\* the module's state when it is loaded: both queues empty, no interval
\* timer, namelixLastRunAt = 0
QueuesIdle ==
    /\ clock = ClockStart
    /\ namelixLastRunAt = 0
    /\ namelixQueue = [added |-> 0, waiting |-> 0, pc |-> "idle", wakeAt |-> NoTime]
    /\ namelixFinishedAt = NoTime
    /\ scrape = IdleScrape
    /\ goDaddyQueue = [added |-> 0, waiting |-> 0, intervalCount |-> 0, intervalEnd |-> NoTime]
    /\ goDaddyTasks = EmptyBag
    /\ requestLog = <<>>

RunnerInit ==
    /\ jobs = <<>>
    /\ now = TickMs
    /\ modelFile = <<>>
    /\ issuedIds = {}
    /\ pc = "idle"
    /\ settled = "none"
    /\ thrown = NoError
    /\ found = <<>>
    /\ modelCalls = <<>>
    /\ jobId = NoCount
    /\ baseInput = NoInput
    /\ modelState = NoModelState
    /\ optimizer = NoOptimizer
    /\ loop = NoLoop
    /\ plan = NoPlan
    /\ seenDomains = {}
    /\ loopRawAvailable = <<>>
    /\ consideredCount = 0
    /\ batchCount = 0
    /\ limitHit = FALSE
    /\ stalledBatches = 0
    /\ skipReason = NoSkipReason
    /\ freshCandidates = <<>>
    /\ availabilityMap = <<>>
    /\ aggregate = <<>>
    /\ loopSummaries = <<>>
    /\ tuningHistory = <<>>

NoCall == [fn |-> "none", args |-> <<>>, returned |-> FALSE, result |-> <<>>]

\* no job, no model file, idle queues
Quiet ==
    /\ RunnerInit
    /\ disk = EmptyDisk
    /\ inodes = <<>>
    /\ StoreIdle
    /\ QueuesIdle
    /\ provider = [status |-> 200, retryAfterMs |-> NoCount]

Init ==
    /\ Quiet
    /\ call = NoCall

\* a loop condition that stops one loop early
LoopsRemainShort(currentLoop, totalLoops) == currentLoop < totalLoops

\* the for loop's condition
LoopsRemain(currentLoop, totalLoops) == currentLoop <= totalLoops

\* the patch of the three publishes within a loop and of the one that ends it
RunningPatch(phase, progress, results) ==
    [status |-> "running",
     phase |-> phase,
     progress |-> progress,
     currentLoop |-> loop,
     totalLoops |-> baseInput.loopCount,
     results |-> <<results>>]

\* a filter that lets every candidate through
FreshFromAll(candidates, seen) == candidates

RECURSIVE FreshFrom(_, _)
\* candidates.filter(...) against seenDomains
FreshFrom(candidates, seen) ==
    IF candidates = <<>> THEN <<>>
    ELSE LET key == toLowerCase(Head(candidates).domain)
         IN  IF key \in seen THEN FreshFrom(Tail(candidates), seen)
             ELSE <<Head(candidates)>> \o FreshFrom(Tail(candidates), seen \cup {key})

RECURSIVE QualifyBatchNoBreak(_, _, _, _)
\* a qualification loop that does not stop at the quota
QualifyBatchNoBreak(candidates, answers, input, acc) ==
    IF candidates = <<>> THEN acc
    ELSE IF ~answers[Head(candidates).domain].available
    THEN QualifyBatchNoBreak(Tail(candidates), answers, input, acc)
    ELSE IF answers[Head(candidates).domain].priceMicros # NoPrice
            /\ microsToPrice(answers[Head(candidates).domain].priceMicros)
                   > input.yearlyBudget
    THEN QualifyBatchNoBreak(Tail(candidates), answers, input, acc)
    ELSE QualifyBatchNoBreak(Tail(candidates), answers, input,
             [rawAvailable |->
                  Append(acc.rawAvailable,
                         [domain |-> Head(candidates).domain,
                          sourceName |-> Head(candidates).sourceName,
                          isNamelixPremium |-> Head(candidates).isNamelixPremium,
                          available |-> TRUE,
                          definitive |-> answers[Head(candidates).domain].definitive,
                          priceMicros |-> answers[Head(candidates).domain].priceMicros]),
              batchQualifiedCount |-> acc.batchQualifiedCount + 1])

RECURSIVE QualifyBatch(_, _, _, _)
\* the qualification loop over a batch's fresh candidates: the loop's
\* qualifying candidates and the batch's count after it
QualifyBatch(candidates, answers, input, acc) ==
    LET Push(rawAvailable) ==
            [rawAvailable |-> Append(acc.rawAvailable, rawAvailable),
             batchQualifiedCount |-> acc.batchQualifiedCount + 1]
        Continue(next) ==
            IF Len(next.rawAvailable) >= input.maxNames THEN next
            ELSE QualifyBatch(Tail(candidates), answers, input, next)
        Priced(rawAvailable) ==
            IF toDomainResult(rawAvailable, input.yearlyBudget).overBudget
            THEN QualifyBatch(Tail(candidates), answers, input, acc)
            ELSE Continue(Push(rawAvailable))
        Check(candidate, availability) ==
            IF ~availability.available
            THEN QualifyBatch(Tail(candidates), answers, input, acc)
            ELSE Priced([domain |-> candidate.domain,
                         sourceName |-> candidate.sourceName,
                         isNamelixPremium |-> candidate.isNamelixPremium,
                         available |-> TRUE,
                         definitive |-> availability.definitive,
                         priceMicros |-> availability.priceMicros])
    IN  IF candidates = <<>> THEN acc
        ELSE Check(Head(candidates), answers[Head(candidates).domain])

\* the catch clause of runSearchJob
\* a call of the model store as the run makes it: the loop variable, the
\* number of rewards recorded and the job's status at the call
StoreCall(op) ==
    [op |-> op,
     loop |-> loop,
     rewards |-> Len(tuningHistory),
     status |-> IF jobId \in DOMAIN jobs THEN jobs[jobId].status ELSE "none"]

Caught(error) ==
    /\ jobs' = markJobFailed(jobs, jobId, mapErrorToJobError(error), now)
    /\ thrown' = error
    /\ settled' = "fulfilled"
    /\ pc' = "idle"

\* POST /api/searches up to createJob: the job is stored as queued
POST(input) ==
    /\ pc = "idle"
    /\ Cardinality(issuedIds) < MaxJobs
    /\ LET id == Cardinality(issuedIds) + 1
       IN  /\ jobs' = createJob(jobs, id, input, now)
           /\ issuedIds' = issuedIds \cup {id}
           /\ jobId' = id
    /\ pc' = "start"
    /\ settled' = "pending"
    /\ thrown' = NoError
    /\ found' = <<>>
    /\ modelCalls' = <<>>
    /\ baseInput' = NoInput
    /\ modelState' = NoModelState
    /\ optimizer' = NoOptimizer
    /\ loop' = NoLoop
    /\ plan' = NoPlan
    /\ seenDomains' = {}
    /\ loopRawAvailable' = <<>>
    /\ consideredCount' = 0
    /\ batchCount' = 0
    /\ limitHit' = FALSE
    /\ stalledBatches' = 0
    /\ skipReason' = NoSkipReason
    /\ freshCandidates' = <<>>
    /\ availabilityMap' = <<>>
    /\ aggregate' = <<>>
    /\ loopSummaries' = <<>>
    /\ tuningHistory' = <<>>
    /\ UNCHANGED <<now, modelFile, outside>>

\* runSearchJob from its call to markJobRunning
RunStart ==
    /\ pc = "start"
    /\ IF jobId \notin DOMAIN jobs
       THEN /\ pc' = "idle"
            /\ settled' = "fulfilled"
            /\ UNCHANGED <<jobs, baseInput>>
       ELSE /\ baseInput' = jobs[jobId].input
            /\ jobs' = markJobRunning(jobs, jobId, "looping", 5, now)
            /\ pc' = "publishInitial"
            /\ UNCHANGED settled
    /\ UNCHANGED <<environment, thrown, found, jobId, outside, modelCalls, modelState, optimizer, loop, plan,
                   aggregate, loopSummaries, tuningHistory, loopLocals>>

\* the first patchJob, up to the await of loadOptimizerModelState
PublishInitial ==
    /\ pc = "publishInitial"
    /\ jobs' = patchJob(jobs, jobId,
                        [currentLoop |-> 0,
                         totalLoops |-> baseInput.loopCount,
                         results |-> <<buildResultsSnapshot(aggregate, loopSummaries,
                                                            tuningHistory)>>],
                        now)
    /\ pc' = "loading"
    /\ UNCHANGED <<environment, settled, thrown, found, jobId, outside, modelCalls, runLocals, loopLocals>>

\* loadOptimizerModelState resolves; the optimizer is constructed (its
\* constructor sanitizes the state once more)
LoadModel ==
    /\ pc = "loading"
    /\ modelState' = loadOptimizerModelState(modelFile)
    /\ optimizer' = NewOptimizer(baseInput, sanitizeOptimizerModelState(modelState'))
    /\ modelCalls' = Append(modelCalls, StoreCall("load"))
    /\ loop' = 1
    /\ pc' = "loopHead"
    /\ UNCHANGED <<jobs, environment, settled, thrown, found, jobId, outside, baseInput, plan,
                   aggregate, loopSummaries, tuningHistory, loopLocals>>

\* the head of the for loop: the plan of the next loop and its fresh locals
PlanLoop ==
    /\ pc = "loopHead"
    /\ LoopsRemain(loop, baseInput.loopCount)
    /\ \E o \in ExploredPlans(optimizer, loop) :
           /\ plan' = o.plan
           /\ optimizer' = o.optimizer
    /\ seenDomains' = {}
    /\ loopRawAvailable' = <<>>
    /\ consideredCount' = 0
    /\ batchCount' = 0
    /\ limitHit' = FALSE
    /\ stalledBatches' = 0
    /\ skipReason' = NoSkipReason
    /\ found' = Append(found, <<>>)
    /\ pc' = "batchHead"
    /\ UNCHANGED <<jobs, environment, settled, thrown, jobId, outside, modelCalls, baseInput, modelState, loop,
                   freshCandidates, availabilityMap, aggregate, loopSummaries,
                   tuningHistory>>

\* a considered-name test that never trips
ConsideredCapNever(count) == FALSE

\* consideredCount >= LOOP_CONSIDERED_LIMIT, at the head of a batch and after
\* the batch's fresh candidates have been counted
ConsideredCapReached(count) == count >= LOOP_CONSIDERED_LIMIT

\* a loop whose batches are never capped
BatchCapNever(count) == FALSE

\* batchCount >= LOOP_MAX_BATCH_ATTEMPTS, at the head of a batch
BatchCapReached(count) == count >= LOOP_MAX_BATCH_ATTEMPTS

\* a stall counter that no batch resets
StalledNeverReset(stalled, batchQualifiedCount) == stalled + 1

\* stalledBatches = batchQualifiedCount === 0 ? stalledBatches + 1 : 0
StalledAfter(stalled, batchQualifiedCount) ==
    IF batchQualifiedCount = 0 THEN stalled + 1 ELSE 0

\* the head of the while loop, up to the await of scrapeNamelix
BatchHead ==
    /\ pc = "batchHead"
    /\ IF Len(loopRawAvailable) < plan.input.maxNames
       THEN IF ConsideredCapReached(consideredCount)
            THEN /\ limitHit' = TRUE
                 /\ skipReason' = ConsideredCapReason
                 /\ pc' = "commit"
                 /\ UNCHANGED jobs
            ELSE IF BatchCapReached(batchCount)
            THEN /\ skipReason' = BatchCapReason
                 /\ pc' = "commit"
                 /\ UNCHANGED <<jobs, limitHit>>
            ELSE /\ jobs' = patchJob(jobs, jobId,
                      RunningPatch("namelix",
                          calculateLoopProgress(baseInput.loopCount, loop,
                              PreScrapeFraction(Len(loopRawAvailable), plan.input.maxNames),
                              FractionDen(plan.input.maxNames)),
                          buildResultsSnapshot(aggregate, loopSummaries, tuningHistory)),
                      now)
                 /\ pc' = "scraping"
                 /\ UNCHANGED <<limitHit, skipReason>>
       ELSE /\ pc' = "commit"
            /\ UNCHANGED <<jobs, limitHit, skipReason>>
    /\ UNCHANGED <<environment, settled, thrown, found, jobId, outside, modelCalls, runLocals, seenDomains,
                   loopRawAvailable, consideredCount, batchCount, stalledBatches,
                   freshCandidates, availabilityMap>>

\* scrapeNamelix resolves with logos, up to the await of checkAvailabilityBulk
\* or, for a batch without fresh candidates, to the live publish
ScrapeReturn(logos) ==
    /\ pc = "scraping"
    /\ ~InvalidTld(plan.input)
    /\ freshCandidates' = FreshFrom(buildDomainCandidates(plan.input, logos), seenDomains)
    /\ LET Continue(fresh) ==
           /\ seenDomains' = seenDomains
                  \cup {toLowerCase(fresh[i].domain) : i \in 1..Len(fresh)}
           /\ consideredCount' = consideredCount + Len(fresh)
           /\ batchCount' = batchCount + 1
           /\ limitHit' = IF ConsideredCapReached(consideredCount') THEN TRUE
                          ELSE limitHit
           /\ skipReason' = IF ConsideredCapReached(consideredCount')
                            THEN ConsideredCapReason ELSE skipReason
           /\ IF fresh = <<>>
              THEN /\ stalledBatches' = stalledBatches + 1
                   /\ pc' = "live"
                   /\ UNCHANGED jobs
              ELSE /\ jobs' = patchJob(jobs, jobId,
                        RunningPatch("godaddy",
                            calculateLoopProgress(baseInput.loopCount, loop,
                                PreCheckFraction(Len(loopRawAvailable),
                                                 plan.input.maxNames),
                                FractionDen(plan.input.maxNames)),
                            buildResultsSnapshot(aggregate, loopSummaries, tuningHistory)),
                        now)
                   /\ pc' = "checking"
                   /\ UNCHANGED stalledBatches
       IN  Continue(freshCandidates')
    /\ UNCHANGED <<environment, settled, thrown, found, jobId, outside, modelCalls, runLocals, loopRawAvailable,
                   availabilityMap>>

\* scrapeNamelix resolves, and buildDomainCandidates throws on the TLD
CandidatesThrow ==
    /\ pc = "scraping"
    /\ InvalidTld(plan.input)
    /\ Caught(InvalidTldError)
    /\ UNCHANGED <<environment, found, jobId, outside, modelCalls, runLocals, loopLocals>>

\* scrapeNamelix rejects
ScrapeThrows ==
    /\ pc = "scraping"
    /\ Caught(ScrapeError)
    /\ UNCHANGED <<environment, found, jobId, outside, modelCalls, runLocals, loopLocals>>

\* checkAvailabilityBulk resolves: the qualification of the batch
AvailabilityReturn(answers) ==
    /\ pc = "checking"
    /\ availabilityMap' = answers
    /\ LET Qualified(qualified) ==
               /\ loopRawAvailable' = qualified.rawAvailable
               /\ stalledBatches' = StalledAfter(stalledBatches, qualified.batchQualifiedCount)
               /\ found' = [found EXCEPT ![loop] = qualified.rawAvailable]
       IN  Qualified(QualifyBatch(freshCandidates, answers, plan.input,
                         [rawAvailable |-> loopRawAvailable, batchQualifiedCount |-> 0]))
    /\ pc' = "live"
    /\ UNCHANGED <<jobs, environment, settled, thrown, jobId, outside, modelCalls, runLocals, seenDomains,
                   consideredCount, batchCount, limitHit, skipReason, freshCandidates>>

\* checkAvailabilityBulk rejects
AvailabilityThrows(error) ==
    /\ pc = "checking"
    /\ Caught(error)
    /\ UNCHANGED <<environment, found, jobId, outside, modelCalls, runLocals, loopLocals>>

\* the LoopRunState built from the loop's locals
LoopRunState ==
    [rawAvailable |-> loopRawAvailable,
     consideredCount |-> consideredCount,
     batchCount |-> batchCount,
     limitHit |-> limitHit,
     quotaMet |-> Len(loopRawAvailable) >= plan.input.maxNames,
     skipReason |-> skipReason]

\* the live publish that ends a batch, and the two breaks after it (the
\* batch's availabilityMap has gone out of scope)
LivePublish ==
    /\ pc = "live"
    /\ LET Publish(liveScored) ==
               jobs' = patchJob(jobs, jobId,
                   RunningPatch(getLivePhase(batchCount),
                       calculateLoopProgress(baseInput.loopCount, loop,
                           LiveFraction(Len(loopRawAvailable), plan.input.maxNames),
                           FractionDen(plan.input.maxNames)),
                       \* previewAggregate and [...loopSummaries, liveSummary]
                       buildResultsSnapshot(
                           mergeRowsIntoAggregate(aggregate, liveScored.ranked, loop),
                           Append(loopSummaries,
                                  buildLoopSummary(loop, plan.input, plan, LoopRunState,
                                                   liveScored)),
                           tuningHistory)),
                   now)
       IN  Publish(scoreIterationResults(loopRawAvailable, plan.input, loop))
    /\ IF limitHit
       THEN /\ pc' = "commit"
            /\ UNCHANGED skipReason
       ELSE IF stalledBatches >= LOOP_MAX_STALLED_BATCHES
       THEN /\ skipReason' = StalledReason
            /\ pc' = "commit"
       ELSE /\ pc' = "batchHead"
            /\ UNCHANGED skipReason
    /\ availabilityMap' = <<>>
    /\ UNCHANGED <<environment, settled, thrown, found, jobId, outside, modelCalls, runLocals, seenDomains,
                   loopRawAvailable, consideredCount, batchCount, limitHit, stalledBatches,
                   freshCandidates>>

\* the end of a loop: scoring, merge, reward, summary and publish
CommitLoop ==
    /\ pc = "commit"
    /\ LET Record(recorded) ==
               /\ optimizer' = recorded.optimizer
               /\ tuningHistory' = Append(tuningHistory, recorded.tuningStep)
           Commit(scored) ==
               /\ aggregate' = mergeRowsIntoAggregate(aggregate, scored.ranked, loop)
               /\ Record(recordReward(optimizer, plan,
                      Finite(scoreRewardFromRankedScores(
                          [i \in 1..Len(scored.ranked) |-> scored.ranked[i].overallScore]))))
               /\ loopSummaries' =
                      Append(loopSummaries,
                             buildLoopSummary(loop, plan.input, plan, LoopRunState, scored))
       IN  Commit(scoreIterationResults(loopRawAvailable, plan.input, loop))
    /\ jobs' = patchJob(jobs, jobId,
                   RunningPatch("looping",
                       calculateLoopProgress(baseInput.loopCount, loop, 1, 1),
                       buildResultsSnapshot(aggregate', loopSummaries', tuningHistory')),
                   now)
    /\ loop' = loop + 1
    /\ pc' = "loopHead"
    /\ UNCHANGED <<environment, settled, thrown, found, jobId, outside, modelCalls, baseInput, modelState, plan,
                   loopLocals>>

\* after the last loop: snapshotModelState, up to the await of
\* saveOptimizerModelState
Finalize ==
    /\ pc = "loopHead"
    /\ ~LoopsRemain(loop, baseInput.loopCount)
    /\ optimizer' = snapshotModelState(optimizer)
    /\ pc' = "saving"
    /\ UNCHANGED <<jobs, environment, settled, thrown, found, jobId, outside, modelCalls, baseInput, modelState,
                   loop, plan, aggregate, loopSummaries, tuningHistory, loopLocals>>

\* the steps of saveOptimizerModelState that can throw
SaveSteps == {"mkdir", "writeFile", "rename"}

\* what a step of the save throws
SaveError == [class |-> "Error", message |-> "ENOSPC: no space left on device, write"]

\* a catch clause that lets the error of a step of the save escape
SaveRethrows(step) == [pc |-> "thrown", caught |-> step]

\* the catch clause of saveOptimizerModelState: on to rm(TEMP_MODEL_PATH)
SaveCatch(step) == [pc |-> "cleanup", caught |-> step]

\* the await of saveOptimizerModelState settles, the file written or the
\* given step having thrown: the job is marked complete, or the error that
\* escaped the save reaches the catch clause of runSearchJob
SaveReturn(failed) ==
    /\ pc = "saving"
    /\ modelFile' = saveOptimizerModelState(modelFile, optimizer.model, failed \notin SaveSteps)
    /\ modelCalls' = Append(modelCalls, StoreCall("save"))
    /\ IF failed \in SaveSteps /\ SaveCatch(failed).pc = "thrown"
       THEN Caught(SaveError)
       ELSE /\ jobs' = markJobComplete(jobs, jobId,
                           buildResultsSnapshot(aggregate, loopSummaries, tuningHistory), now)
            /\ settled' = "fulfilled"
            /\ pc' = "idle"
            /\ UNCHANGED thrown
    /\ UNCHANGED <<now, issuedIds, found, jobId, outside, runLocals, loopLocals>>

\* the cleanup timer fires
Cleanup ==
    /\ pc \in YieldPoints
    /\ jobs' = cleanupExpiredJobs(jobs, now)
    /\ UNCHANGED <<environment, pc, settled, thrown, found, jobId, outside, modelCalls, runLocals, loopLocals>>

\* time passes, counted from the first request; the clock's steps are coarse
\* enough that a run in flight sees a single time
Tick ==
    /\ pc = "idle"
    /\ issuedIds # {}
    /\ now < MaxTicks * TickMs
    /\ now' = now + TickMs
    /\ UNCHANGED <<jobs, modelFile, issuedIds, pc, settled, thrown, found, jobId, outside, modelCalls,
                   runLocals, loopLocals>>

\* the domains of the batch whose availability check is in flight
FreshDomains == [i \in 1..Len(freshCandidates) |-> freshCandidates[i].domain]

\* the answers of the provider under which a chunk's task throws: 401, 500,
\* 429 on every attempt, and 429 followed by 403
FailingResponses ==
    {<<[status |-> 401]>>,
     <<[status |-> 500]>>,
     [attempt \in 1..(MAX_RETRIES + 1) |-> [status |-> 429]],
     <<[status |-> 429], [status |-> 403]>>}

\* what checkAvailabilityBulk can reject with for the batch in flight (a batch
\* of the explored requests fits one chunk)
AvailabilityErrors ==
    IF pc # "checking" THEN {}
    ELSE {checkAvailabilityBulk(FreshDomains, <<responses>>).error :
             responses \in FailingResponses} \cup TransportErrors

\* what checkAvailabilityBulk can resolve to for the batch in flight when the
\* provider answers 200 with the given payload for each domain
Resolved(payloads) ==
    IF pc # "checking" THEN {}
    ELSE {checkAvailabilityBulk(FreshDomains,
              <<<<[status |-> 200, domains |-> payload, errors |-> {}]>>>>).resultMap :
             payload \in payloads}

Next ==
    \/ \E input \in SearchRequests : POST(input)
    \/ RunStart
    \/ PublishInitial
    \/ LoadModel
    \/ PlanLoop
    \/ BatchHead
    \/ \E logos \in LogoLists : ScrapeReturn(logos)
    \/ CandidatesThrow
    \/ ScrapeThrows
    \/ \E answers \in Resolved([Range(FreshDomains) -> AvailabilityOutcomes]) :
           AvailabilityReturn(answers)
    \/ \E error \in AvailabilityErrors : AvailabilityThrows(error)
    \/ LivePublish
    \/ CommitLoop
    \/ Finalize
    \/ \E failed \in SaveSteps \cup {"none"} : SaveReturn(failed)
    \/ Cleanup
    \/ Tick

Spec == Init /\ [][Next]_vars

-----------------------------------------------------------------------------
(* The same runner under high-volume batches: a request whose batches are   *)
(* large enough for a loop to reach the considered-name cap                 *)

BulkMaxNames == 20

\* the i-th generated business name, i in 0..675
BulkName(i) == <<UpperLetters[((i \div 26) % 26) + 1], LowerLetters[(i % 26) + 1]>>

\* a validated request with a large quota (budget in cents)
BulkRequests ==
    {[keywords |-> <<"n", "o", "v", "a">>,
      description |-> <<>>,
      style |-> "default",
      randomness |-> "medium",
      maxLength |-> 5,
      tld |-> <<"c", "o", "m">>,
      maxNames |-> BulkMaxNames,
      yearlyBudget |-> 2000,
      loopCount |-> 1]}

\* what scrapeNamelix resolves to for the batch in flight: as many names as
\* the batch asked for (logos.slice(0, maxNames)), none of them seen before
BulkLogoLists ==
    IF pc # "scraping" THEN {}
    ELSE LET asked == buildBatchMaxNames(plan.input.maxNames - Len(loopRawAvailable),
                                         plan.input.maxNames)
         IN  {[i \in 1..asked |->
                  [businessName |-> BulkName(consideredCount + i - 1), name |-> "logo"]]}

\* what the provider's payload holds for the batch in flight: every domain
\* taken, every domain available at $1, or only the first one available
BulkAvailabilityMaps ==
    IF pc # "checking" THEN {}
    ELSE LET domains == {freshCandidates[i].domain : i \in 1..Len(freshCandidates)}
             taken == [available |-> FALSE, definitive |-> TRUE, priceMicros |-> NoPrice]
             free == [available |-> TRUE, definitive |-> TRUE, priceMicros |-> 1000000]
         IN  {[d \in domains |-> taken],
              [d \in domains |-> free],
              [d \in domains |-> IF d = freshCandidates[1].domain THEN free ELSE taken]}

\* the steps of the runner for these requests, whose TLD is valid
BulkNext ==
    \/ \E input \in BulkRequests : POST(input)
    \/ RunStart
    \/ PublishInitial
    \/ LoadModel
    \/ PlanLoop
    \/ BatchHead
    \/ \E logos \in BulkLogoLists : ScrapeReturn(logos)
    \/ ScrapeThrows
    \/ \E answers \in Resolved(BulkAvailabilityMaps) : AvailabilityReturn(answers)
    \/ \E error \in AvailabilityErrors : AvailabilityThrows(error)
    \/ LivePublish
    \/ CommitLoop
    \/ Finalize
    \/ \E failed \in SaveSteps \cup {"none"} : SaveReturn(failed)
    \/ Cleanup
    \/ Tick

BulkSpec == Init /\ [][BulkNext]_vars

(***************************************************************************)
(* A run whose loop can last: a quota of five names and a generator that   *)
(* hands back one or two names per batch, some of them already seen        *)
(***************************************************************************)

\* a validated request with a quota of five and a single loop
LongRequests ==
    {[keywords |-> <<"n", "o", "v", "a">>,
      description |-> <<>>,
      style |-> "default",
      randomness |-> "medium",
      maxLength |-> 5,
      tld |-> <<"c", "o", "m">>,
      maxNames |-> 5,
      yearlyBudget |-> 2000,
      loopCount |-> 1]}

\* what scrapeNamelix resolves to for the batch in flight: a name never
\* generated before, the first name of the loop again, or both
LongLogoLists ==
    IF pc # "scraping" THEN {}
    ELSE LET fresh == [businessName |-> BulkName(consideredCount), name |-> "logo"]
             again == [businessName |-> BulkName(0), name |-> "logo"]
         IN  {<<fresh>>, <<again>>, <<again, fresh>>}

\* what the provider's payload holds for the batch in flight: every domain
\* taken, or every domain available at $1
LongAvailabilityMaps ==
    IF pc # "checking" THEN {}
    ELSE LET domains == {freshCandidates[i].domain : i \in 1..Len(freshCandidates)}
         IN  {[d \in domains |->
                  [available |-> FALSE, definitive |-> TRUE, priceMicros |-> NoPrice]],
              [d \in domains |->
                  [available |-> TRUE, definitive |-> TRUE, priceMicros |-> 1000000]]}

\* what checkAvailabilityBulk rejects with: the provider refuses the key
SettleErrors ==
    {[class |-> "GoDaddyAuthError",
      message |-> "GoDaddy authentication failed with status ${response.status}."]}

\* the steps of the runner itself, from the start of runSearchJob to the
\* settling of its promise
LongRunSteps ==
    \/ RunStart
    \/ PublishInitial
    \/ LoadModel
    \/ PlanLoop
    \/ BatchHead
    \/ \E logos \in LongLogoLists : ScrapeReturn(logos)
    \/ ScrapeThrows
    \/ \E answers \in Resolved(LongAvailabilityMaps) : AvailabilityReturn(answers)
    \/ \E error \in SettleErrors : AvailabilityThrows(error)
    \/ LivePublish
    \/ CommitLoop
    \/ Finalize
    \/ \E failed \in SaveSteps \cup {"none"} : SaveReturn(failed)

\* a single request is followed from its POST to the settling of its run;
\* the clock stands still meanwhile
FirstRequest(input) == issuedIds = {} /\ POST(input)

LongNext ==
    \/ \E input \in LongRequests : FirstRequest(input)
    \/ LongRunSteps

LongSpec == Init /\ [][LongNext]_vars

(***************************************************************************)
(* The same run when every awaited call settles: the generator hands back  *)
(* one new name per batch and the provider answers taken or available for  *)
(* it. The clock stands still, so the cleanup timer finds nothing to do.   *)
(***************************************************************************)

\* what scrapeNamelix resolves to for the batch in flight
SettleLogoLists ==
    IF pc # "scraping" THEN {}
    ELSE {<<[businessName |-> BulkName(consideredCount), name |-> "logo"]>>}

\* the positions at which a run of runSearchJob is suspended or about to go on
RunPositions ==
    {"start", "publishInitial", "loading", "loopHead", "batchHead", "scraping",
     "checking", "live", "commit", "saving"}

SettleNext ==
    \/ \E input \in LongRequests : FirstRequest(input)
    \/ RunStart
    \/ PublishInitial
    \/ LoadModel
    \/ PlanLoop
    \/ BatchHead
    \/ \E logos \in SettleLogoLists : ScrapeReturn(logos)
    \/ ScrapeThrows
    \/ \E answers \in Resolved(LongAvailabilityMaps) : AvailabilityReturn(answers)
    \/ \E error \in SettleErrors : AvailabilityThrows(error)
    \/ LivePublish
    \/ CommitLoop
    \/ Finalize
    \/ \E failed \in SaveSteps \cup {"none"} : SaveReturn(failed)

\* the run leaves its position: among the steps of SettleNext these are the
\* steps of runSearchJob, and at every position of a run one of them can be
\* taken
Resumes == pc \in RunPositions /\ pc' \in RunPositions \cup {"idle"}

\* every awaited call returns or throws and the event loop goes on running
\* the continuation of runSearchJob: a run never stays at a position for ever
SettleSpec == Init /\ [][SettleNext]_vars /\ WF_pc(Resumes)

-----------------------------------------------------------------------------
(* lib/search/model-store.ts under concurrent runs: the file-system steps   *)
(* of loadOptimizerModelState and saveOptimizerModelState, for runs of      *)
(* runSearchJob that interleave at their awaits                             *)

\* the runner's own state, which the steps below leave alone
runnerVars == <<jobs, now, modelFile, issuedIds, pc, settled, thrown, found, modelCalls,
                jobId, runLocals, loopLocals>>

\* the number of writes writeFile takes for a payload
PayloadChunks == 2

\* a range of a file no write has filled
Hole == [of |-> NoModelState, part |-> 0]

\* JSON.stringify(state, null, 2), as the chunks writeFile writes in order
Serialize(state) == [k \in 1..PayloadChunks |-> [of |-> state, part |-> k]]

\* JSON.parse(raw): <<value>>, or <<>> when it throws
Parse(raw) ==
    IF Len(raw) = PayloadChunks /\ raw = Serialize(raw[1].of) THEN <<raw[1].of>> ELSE <<>>

\* readFile(MODEL_PATH) and JSON.parse: <<value>>, or <<>> when either throws
ReadModel ==
    IF disk[MODEL_PATH] = NoInode THEN <<>> ELSE Parse(inodes[disk[MODEL_PATH]])

\* a write of one chunk at the k-th position of a file
WriteAt(content, k, chunk) ==
    [i \in 1..Max2(Len(content), k) |->
        IF i = k THEN chunk ELSE IF i <= Len(content) THEN content[i] ELSE Hole]

\* the request of the runs that share the file
StoreInput == CHOOSE request \in BulkRequests : TRUE

\* the model an earlier run has saved
PreviousModel ==
    sanitizeOptimizerModelState(
        snapshotModelState(NewOptimizer(StoreInput, createDefaultOptimizerModelState)).model)

\* the run after a step of its save has thrown
Thrown(p, step) ==
    [runs EXCEPT ![p].pc = SaveCatch(step).pc, ![p].caught = SaveCatch(step).caught]

\* markJobRunning, and loadOptimizerModelState reading the model file
LoadRun(p) ==
    /\ ~crashed
    /\ runs[p].pc = "idle"
    /\ runs' = [runs EXCEPT
                   ![p].pc = "looping",
                   ![p].status = "running",
                   ![p].optimizer =
                       NewOptimizer(StoreInput,
                           sanitizeOptimizerModelState(loadOptimizerModelState(ReadModel)))]
    /\ UNCHANGED <<runnerVars, call, namelixVars, goDaddyVars, disk, inodes, crashed>>

\* the loops of the run, here one loop in which nothing qualified: its plan
\* and its reward
LoopRun(p) ==
    /\ ~crashed
    /\ runs[p].pc = "looping"
    /\ \E o \in ExploredPlans(runs[p].optimizer, 1) :
           runs' = [runs EXCEPT
                       ![p].pc = "snapshot",
                       ![p].optimizer =
                           recordReward(o.optimizer, o.plan,
                               Finite(scoreRewardFromRankedScores(<<>>))).optimizer]
    /\ UNCHANGED <<runnerVars, call, namelixVars, goDaddyVars, disk, inodes, crashed>>

\* snapshotModelState and the call of saveOptimizerModelState, up to its
\* await of mkdir
SnapshotRun(p) ==
    /\ ~crashed
    /\ runs[p].pc = "snapshot"
    /\ runs' = [runs EXCEPT
                   ![p].pc = "mkdir",
                   ![p].optimizer = snapshotModelState(runs[p].optimizer)]
    /\ UNCHANGED <<runnerVars, call, namelixVars, goDaddyVars, disk, inodes, crashed>>

\* mkdir settles; the payload is serialized and writeFile called
MkdirSettles(p, ok) ==
    /\ ~crashed
    /\ runs[p].pc = "mkdir"
    /\ runs' = IF ok
               THEN [runs EXCEPT
                        ![p].pc = "open",
                        ![p].payload =
                            Serialize(sanitizeOptimizerModelState(runs[p].optimizer.model))]
               ELSE Thrown(p, "mkdir")
    /\ UNCHANGED <<runnerVars, call, namelixVars, goDaddyVars, disk, inodes, crashed>>

\* writeFile opens TEMP_MODEL_PATH with flag w: the file is created, or the
\* file the path names is truncated
OpenSettles(p, ok) ==
    /\ ~crashed
    /\ runs[p].pc = "open"
    /\ IF ~ok
       THEN /\ runs' = Thrown(p, "writeFile")
            /\ UNCHANGED <<disk, inodes>>
       ELSE IF disk[TEMP_MODEL_PATH] = NoInode
       THEN /\ inodes' = Append(inodes, <<>>)
            /\ disk' = [disk EXCEPT ![TEMP_MODEL_PATH] = Len(inodes) + 1]
            /\ runs' = [runs EXCEPT ![p].pc = "write", ![p].fd = Len(inodes) + 1,
                                    ![p].position = 0]
       ELSE /\ inodes' = [inodes EXCEPT ![disk[TEMP_MODEL_PATH]] = <<>>]
            /\ runs' = [runs EXCEPT ![p].pc = "write", ![p].fd = disk[TEMP_MODEL_PATH],
                                    ![p].position = 0]
            /\ UNCHANGED disk
    /\ UNCHANGED <<runnerVars, call, namelixVars, goDaddyVars, crashed>>

\* writeFile writes its next chunk to the file it opened, and closes the
\* file after the last one
WriteSettles(p, ok) ==
    /\ ~crashed
    /\ runs[p].pc = "write"
    /\ IF ~ok
       THEN /\ runs' = Thrown(p, "writeFile")
            /\ UNCHANGED inodes
       ELSE /\ inodes' = [inodes EXCEPT
                             ![runs[p].fd] =
                                 WriteAt(@, runs[p].position + 1,
                                         runs[p].payload[runs[p].position + 1])]
            /\ runs' = [runs EXCEPT
                           ![p].position = @ + 1,
                           ![p].pc = IF runs[p].position + 1 = PayloadChunks
                                     THEN "rename" ELSE "write"]
    /\ UNCHANGED <<runnerVars, call, namelixVars, goDaddyVars, disk, crashed>>

\* rename(TEMP_MODEL_PATH, MODEL_PATH) settles; it throws when the temporary
\* path names no file
RenameSettles(p, ok) ==
    /\ ~crashed
    /\ runs[p].pc = "rename"
    /\ IF ok /\ disk[TEMP_MODEL_PATH] # NoInode
       THEN /\ disk' = [disk EXCEPT ![MODEL_PATH] = disk[TEMP_MODEL_PATH],
                                    ![TEMP_MODEL_PATH] = NoInode]
            /\ runs' = [runs EXCEPT ![p].pc = "returned"]
       ELSE /\ runs' = Thrown(p, "rename")
            /\ UNCHANGED disk
    /\ UNCHANGED <<runnerVars, call, namelixVars, goDaddyVars, inodes, crashed>>

\* rm(TEMP_MODEL_PATH, {force: true}) settles; its error is ignored
RmSettles(p, ok) ==
    /\ ~crashed
    /\ runs[p].pc = "cleanup"
    /\ disk' = IF ok THEN [disk EXCEPT ![TEMP_MODEL_PATH] = NoInode] ELSE disk
    /\ runs' = [runs EXCEPT ![p].pc = "returned"]
    /\ UNCHANGED <<runnerVars, call, namelixVars, goDaddyVars, inodes, crashed>>

\* the await of saveOptimizerModelState settles: markJobComplete, or the
\* catch clause of runSearchJob and markJobFailed
SettleRun(p) ==
    /\ ~crashed
    /\ runs[p].pc \in {"returned", "thrown"}
    /\ runs' = [runs EXCEPT
                   ![p].pc = "settled",
                   ![p].status = IF runs[p].pc = "returned" THEN "done" ELSE "failed"]
    /\ UNCHANGED <<runnerVars, call, namelixVars, goDaddyVars, disk, inodes, crashed>>

\* the process exits while a run is in flight; the files stay as they are
Crash ==
    /\ ~crashed
    /\ \E p \in 1..StoreRuns : runs[p].pc \notin {"idle", "settled"}
    /\ crashed' = TRUE
    /\ UNCHANGED <<runnerVars, call, namelixVars, goDaddyVars, disk, inodes, runs>>

\* data/ when the process starts: no model file, or the model an earlier
\* run has saved
StoreInit ==
    /\ RunnerInit
    /\ \/ /\ disk = EmptyDisk
          /\ inodes = <<>>
       \/ /\ disk = [EmptyDisk EXCEPT ![MODEL_PATH] = 1]
          /\ inodes = <<Serialize(PreviousModel)>>
    /\ StoreIdle
    /\ QueuesIdle
    /\ provider = [status |-> 200, retryAfterMs |-> NoCount]
    /\ call = NoCall

StoreNext ==
    \/ \E p \in 1..StoreRuns : LoadRun(p)
    \/ \E p \in 1..StoreRuns : LoopRun(p)
    \/ \E p \in 1..StoreRuns : SnapshotRun(p)
    \/ \E p \in 1..StoreRuns, ok \in BOOLEAN : MkdirSettles(p, ok)
    \/ \E p \in 1..StoreRuns, ok \in BOOLEAN : OpenSettles(p, ok)
    \/ \E p \in 1..StoreRuns, ok \in BOOLEAN : WriteSettles(p, ok)
    \/ \E p \in 1..StoreRuns, ok \in BOOLEAN : RenameSettles(p, ok)
    \/ \E p \in 1..StoreRuns, ok \in BOOLEAN : RmSettles(p, ok)
    \/ \E p \in 1..StoreRuns : SettleRun(p)
    \/ Crash

StoreSpec == StoreInit /\ [][StoreNext]_vars

-----------------------------------------------------------------------------
(* lib/rate-limit.ts: runNamelixQueued, for the generation tasks of all     *)
(* jobs; namelixQueue runs one queued function at a time                    *)

\* the generation tasks the jobs add
NamelixTasks == 3

\* the clock's step, and the steps it takes
ClockStep == NAMELIX_MAX_JITTER_MS
MaxClockSteps == 16

\* Math.floor(Math.random() * NAMELIX_MAX_JITTER_MS): the least and the
\* greatest value
Jitters == {0, NAMELIX_MAX_JITTER_MS - 1}

\* scrapeNamelix calls runNamelixQueued: namelixQueue.add
EnqueueScrape ==
    /\ namelixQueue.added < NamelixTasks
    /\ namelixQueue' = [namelixQueue EXCEPT !.added = @ + 1, !.waiting = @ + 1]
    /\ UNCHANGED <<runnerVars, call, storeVars, goDaddyVars, clock, namelixLastRunAt,
                   namelixFinishedAt, scrape>>

\* the queue starts its next function: the wait is computed and, when it
\* is zero, namelixLastRunAt set and the task called
DequeueScrape(jitter) ==
    /\ namelixQueue.pc = "idle"
    /\ namelixQueue.waiting > 0
    /\ LET targetStart == namelixLastRunAt + NAMELIX_BASE_COOLDOWN_MS + jitter
           waitMs == Max2(0, targetStart - clock)
       IN  IF waitMs > 0
           THEN /\ namelixQueue' = [namelixQueue EXCEPT !.waiting = @ - 1,
                                                        !.pc = "sleeping",
                                                        !.wakeAt = clock + waitMs]
                /\ UNCHANGED namelixLastRunAt
           ELSE /\ namelixQueue' = [namelixQueue EXCEPT !.waiting = @ - 1,
                                                        !.pc = "running"]
                /\ namelixLastRunAt' = clock
    /\ UNCHANGED <<runnerVars, call, storeVars, goDaddyVars, clock, namelixFinishedAt, scrape>>

\* the timer of sleep(waitMs) fires: namelixLastRunAt is set and the task
\* called
WakeScrape ==
    /\ namelixQueue.pc = "sleeping"
    /\ clock >= namelixQueue.wakeAt
    /\ namelixQueue' = [namelixQueue EXCEPT !.pc = "running", !.wakeAt = NoTime]
    /\ namelixLastRunAt' = clock
    /\ UNCHANGED <<runnerVars, call, storeVars, goDaddyVars, clock, namelixFinishedAt, scrape>>

\* the task's promise settles and the queue is free for its next function
FinishScrape ==
    /\ namelixQueue.pc = "running"
    /\ namelixQueue' = [namelixQueue EXCEPT !.pc = "idle"]
    /\ namelixFinishedAt' = clock
    /\ UNCHANGED <<runnerVars, call, storeVars, goDaddyVars, clock, namelixLastRunAt, scrape>>

\* time passes
NamelixTick ==
    /\ clock < ClockStart + MaxClockSteps * ClockStep
    /\ clock' = clock + ClockStep
    /\ UNCHANGED <<runnerVars, call, storeVars, goDaddyVars, namelixLastRunAt, namelixQueue,
                   namelixFinishedAt, scrape>>

NamelixNext ==
    \/ EnqueueScrape
    \/ \E jitter \in Jitters : DequeueScrape(jitter)
    \/ WakeScrape
    \/ FinishScrape
    \/ NamelixTick

NamelixSpec == Init /\ [][NamelixNext]_vars

-----------------------------------------------------------------------------
(* lib/rate-limit.ts: runGoDaddyQueued, for the availability chunks of all  *)
(* jobs, with the requests requestAvailabilityChunk sends for each of them  *)

\* the availability chunks the jobs add
GoDaddyTasks == 7

\* the clock's step here, the queue's interval (times are rounded down to
\* it: what is sent at one clock value is sent within 60 s), and the steps
\* it takes
GoDaddyStep == GODADDY_INTERVAL_MS
MaxGoDaddySteps == 2

\* the chunks one call of checkAvailabilityBulk adds (a batch holds at most
\* 250 domains)
MaxChunksPerCall == 3

RECURSIVE PowerOfTwo(_)
\* 2 ** attempt
PowerOfTwo(attempt) == IF attempt = 0 THEN 1 ELSE 2 * PowerOfTwo(attempt - 1)

\* the bag with one task
One(task) == SetToBag({task})

\* the requests of the log that are at most one interval old at the given time
Recent(log, time) ==
    LET kept == {i \in 1..Len(log) : log[i] > time - GODADDY_INTERVAL_MS}
    IN  [i \in 1..Cardinality(kept) |-> log[Len(log) - Cardinality(kept) + i]]

\* checkAvailabilityBulk calls runGoDaddyQueued for each of its chunks
AddChunks(n) ==
    /\ goDaddyQueue.added + n <= GoDaddyTasks
    /\ goDaddyQueue' = [goDaddyQueue EXCEPT !.added = @ + n, !.waiting = @ + n]
    /\ UNCHANGED <<runnerVars, call, storeVars, namelixVars, goDaddyTasks, requestLog, provider>>

\* the queue starts a waiting task when its concurrency and its interval cap
\* allow another, and starts its interval timer if none runs; the task sends
\* its first request
StartChunk ==
    /\ goDaddyQueue.waiting > 0
    /\ BagCardinality(goDaddyTasks) < GODADDY_CONCURRENCY
    /\ goDaddyQueue.intervalCount < GODADDY_INTERVAL_CAP
    /\ goDaddyTasks' =
           goDaddyTasks (+) One([pc |-> "fetching", attempt |-> 0, wakeAt |-> NoTime])
    /\ goDaddyQueue' = [goDaddyQueue EXCEPT
                           !.waiting = @ - 1,
                           !.intervalCount = @ + 1,
                           !.intervalEnd = IF @ = NoTime THEN clock + GODADDY_INTERVAL_MS
                                           ELSE @]
    /\ requestLog' = Append(requestLog, clock)
    /\ UNCHANGED <<runnerVars, call, storeVars, namelixVars, provider>>

\* fetch resolves for a task: on 429 with attempts left the task sleeps,
\* otherwise it returns or throws and leaves the queue
RespondChunk(task, jitter) ==
    /\ task.pc = "fetching"
    /\ IF provider.status = 429 /\ task.attempt < MAX_RETRIES
       THEN LET fallbackBackoffMs == PowerOfTwo(task.attempt) * 1000 + jitter
                delay == IF provider.retryAfterMs # NoCount THEN provider.retryAfterMs
                         ELSE fallbackBackoffMs
            IN  goDaddyTasks' =
                    (goDaddyTasks (-) One(task))
                        (+) One([task EXCEPT !.pc = "sleeping", !.wakeAt = clock + delay])
       ELSE goDaddyTasks' = goDaddyTasks (-) One(task)
    /\ UNCHANGED <<runnerVars, call, storeVars, namelixVars, goDaddyQueue, requestLog, provider>>

\* the timer of a task's sleep fires and its loop sends the request again
RetryChunk(task) ==
    /\ task.pc = "sleeping"
    /\ clock >= task.wakeAt
    /\ goDaddyTasks' =
           (goDaddyTasks (-) One(task))
               (+) One([task EXCEPT !.pc = "fetching", !.attempt = @ + 1, !.wakeAt = NoTime])
    /\ requestLog' = Append(requestLog, clock)
    /\ UNCHANGED <<runnerVars, call, storeVars, namelixVars, goDaddyQueue, provider>>

\* the queue's interval timer fires: the count starts again from the tasks
\* still running (carryoverConcurrencyCount), and the timer stops when the
\* queue has been idle for an interval
IntervalElapses ==
    /\ goDaddyQueue.intervalEnd # NoTime
    /\ clock >= goDaddyQueue.intervalEnd
    /\ goDaddyQueue' = [goDaddyQueue EXCEPT
                           !.intervalCount = BagCardinality(goDaddyTasks),
                           !.intervalEnd =
                               IF goDaddyQueue.intervalCount = 0 /\ goDaddyTasks = EmptyBag
                               THEN NoTime ELSE @ + GODADDY_INTERVAL_MS]
    /\ UNCHANGED <<runnerVars, call, storeVars, namelixVars, goDaddyTasks, requestLog, provider>>

\* time passes; the log keeps the requests of the last interval
GoDaddyTick ==
    /\ clock < ClockStart + MaxGoDaddySteps * GoDaddyStep
    /\ clock' = clock + GoDaddyStep
    /\ requestLog' = Recent(requestLog, clock')
    /\ UNCHANGED <<runnerVars, call, storeVars, namelixLastRunAt, namelixQueue, namelixFinishedAt, scrape,
                   goDaddyQueue, goDaddyTasks, provider>>

\* the module when it is loaded, and a provider that answers every request
\* of the run alike
GoDaddyInit ==
    /\ RunnerInit
    /\ disk = EmptyDisk
    /\ inodes = <<>>
    /\ StoreIdle
    /\ QueuesIdle
    /\ provider \in ProviderResponses
    /\ call = NoCall

GoDaddyNext ==
    \/ \E n \in 1..MaxChunksPerCall : AddChunks(n)
    \/ StartChunk
    \/ \E task \in BagToSet(goDaddyTasks), jitter \in {0, 499} : RespondChunk(task, jitter)
    \/ \E task \in BagToSet(goDaddyTasks) : RetryChunk(task)
    \/ IntervalElapses
    \/ GoDaddyTick

GoDaddySpec == GoDaddyInit /\ [][GoDaddyNext]_vars

-----------------------------------------------------------------------------
(* lib/namelix/scraper.ts: scrapeNamelix, a call whose attempts go through  *)
(* runNamelixQueued                                                         *)

NAMELIX_MAX_RETRIES == 2

\* how a call of scrapeNamelixOnce settles: with logos (possibly none), or
\* throwing an Error or a value that is no Error
ScrapeOutcomes ==
    {[kind |-> "logos", logos |-> logos, error |-> NoError] : logos \in LogoLists \cup {<<>>}}
    \cup {[kind |-> "threw", logos |-> <<>>, error |-> error] :
              error \in {[class |-> "Error", message |-> "Timeout 45000ms exceeded."],
                         [class |-> "NonError", message |-> ""]}}

\* a retry test that never gives up
ScrapeRetriesAlways(attempt) == TRUE

\* the catch clause's test: attempt >= MAX_RETRIES breaks out of the loop
ScrapeRetriesLeft(attempt) == attempt < NAMELIX_MAX_RETRIES

\* the error the catch clause of an attempt receives
CaughtByScrape(outcome) ==
    IF outcome.kind = "logos"
    THEN [class |-> "NamelixScrapeError",
          message |-> "Namelix returned no generated names for the provided inputs."]
    ELSE outcome.error

\* what scrapeNamelix throws after its loop
ThrownByScrape(lastError) ==
    IF lastError.class # "NonError"
    THEN [class |-> "NamelixScrapeError", message |-> lastError.message]
    ELSE [class |-> "NamelixScrapeError",
          message |-> "Namelix scraping failed for an unknown reason."]

\* runNamelixQueued as an attempt of the call makes it
SubmitAttempt ==
    namelixQueue' = [namelixQueue EXCEPT !.added = @ + 1, !.waiting = @ + 1]

\* scrapeNamelix is called: attempt 0 is submitted
CallScrape ==
    /\ scrape.pc = "idle"
    /\ scrape' = [scrape EXCEPT !.pc = "queued"]
    /\ SubmitAttempt
    /\ UNCHANGED <<runnerVars, call, storeVars, goDaddyVars, clock, namelixLastRunAt,
                   namelixFinishedAt>>

\* the attempt's task settles: the call returns its logos, or catches and
\* sleeps before the next attempt, or breaks out of the loop and throws
ScrapeSettles(outcome, jitter) ==
    /\ scrape.pc = "queued"
    /\ namelixQueue.pc = "running"
    /\ namelixQueue' = [namelixQueue EXCEPT !.pc = "idle"]
    /\ namelixFinishedAt' = clock
    /\ scrape' =
           IF outcome.kind = "logos" /\ outcome.logos # <<>>
           THEN [scrape EXCEPT !.pc = "returned",
                               !.outcomes = Append(@, outcome),
                               !.result = outcome.logos]
           ELSE IF ScrapeRetriesLeft(scrape.attempt)
           THEN [scrape EXCEPT !.pc = "backoff",
                               !.outcomes = Append(@, outcome),
                               !.wakeAt = clock + 1000 * PowerOfTwo(scrape.attempt) + jitter]
           ELSE [scrape EXCEPT !.pc = "thrown",
                               !.outcomes = Append(@, outcome),
                               !.error = ThrownByScrape(CaughtByScrape(outcome))]
    /\ UNCHANGED <<runnerVars, call, storeVars, goDaddyVars, clock, namelixLastRunAt>>

\* the timer of the backoff fires: the next attempt is submitted
RetryScrape ==
    /\ scrape.pc = "backoff"
    /\ clock >= scrape.wakeAt
    /\ scrape' = [scrape EXCEPT !.pc = "queued", !.attempt = @ + 1, !.wakeAt = NoTime]
    /\ SubmitAttempt
    /\ UNCHANGED <<runnerVars, call, storeVars, goDaddyVars, clock, namelixLastRunAt,
                   namelixFinishedAt>>

ScrapeNext ==
    \/ CallScrape
    \/ \E jitter \in Jitters : DequeueScrape(jitter)
    \/ WakeScrape
    \/ \E outcome \in ScrapeOutcomes, jitter \in {0, 399} : ScrapeSettles(outcome, jitter)
    \/ RetryScrape
    \/ NamelixTick

ScrapeSpec == Init /\ [][ScrapeNext]_vars

------------------------------------------------------------------------------
(* The library's functions called on their own                              *)

Called(fn) == call.fn = fn /\ ~call.returned

Returns(result) ==
    /\ call' = [call EXCEPT !.returned = TRUE, !.result = result]
    /\ UNCHANGED <<runnerVars, storeVars, namelixVars, goDaddyVars>>

\* the statuses the provider answers a request with
ResponseStatuses == {200, 401, 403, 404, 429, 500}

\* the provider's answers to the successive requests for one chunk
ChunkResponses ==
    [1..(MAX_RETRIES + 1) ->
        {[status |-> status, domains |-> <<>>, errors |-> {}] : status \in ResponseStatuses}]

CallRequestAvailabilityChunk ==
    /\ Called("requestAvailabilityChunk")
    /\ Returns(requestAvailabilityChunk(call.args))

ChunkNext == CallRequestAvailabilityChunk

ChunkInit ==
    /\ Quiet
    /\ call \in {[NoCall EXCEPT !.fn = "requestAvailabilityChunk", !.args = responses] :
                    responses \in ChunkResponses}

ChunkSpec == ChunkInit /\ [][ChunkNext]_vars

------------------------------------------------------------------------------
(* lib/search/optimizer.ts: a DomainSearchOptimizer built on the default    *)
(* model and driven by nextLoop and recordReward                            *)

MaxOptimizerCalls == 3
MaxOptimizerLoops == 2

Constructor == <<"c", "o", "n", "s", "t", "r", "u", "c", "t", "o", "r">>

\* the requests the optimizers are built for: one keyword, or two of which
\* one names a property every object inherits (nextLoop fills the empty
\* description from the keywords, so that recordReward meets a token twice)
OptimizerRequests ==
    {[keywords |-> keywords,
      description |-> <<>>,
      style |-> "default",
      randomness |-> "medium",
      maxLength |-> 5,
      tld |-> <<"c", "o", "m">>,
      maxNames |-> 1,
      yearlyBudget |-> 2000,
      loopCount |-> 2] :
        keywords \in {Nova, Constructor \o <<" ">> \o Nova}}

\* the rewards recordReward is called with: negative, inside [0, 1], above 1,
\* and not finite
RawRewards == {Finite(0 - 50), Finite(37), Finite(250)} \cup NotFinite

\* new DomainSearchOptimizer(baseInput, createDefaultOptimizerModelState(), seed)
OptimizerInit ==
    /\ Quiet
    /\ call \in {[fn |-> "constructor",
                   args |-> <<request>>,
                   returned |-> TRUE,
                   result |-> <<>>,
                   optimizer |->
                       NewOptimizer(request,
                           sanitizeOptimizerModelState(createDefaultOptimizerModelState)),
                   before |->
                       NewOptimizer(request,
                           sanitizeOptimizerModelState(createDefaultOptimizerModelState)),
                   plan |-> NoPlan,
                   loops |-> 0,
                   calls |-> 0] : request \in OptimizerRequests}

\* optimizer.nextLoop(loop), for the next loop number
CallNextLoop ==
    /\ call.fn \in {"constructor", "nextLoop", "recordReward"}
    /\ call.calls < MaxOptimizerCalls
    /\ call.loops < MaxOptimizerLoops
    /\ \E o \in nextLoop(call.optimizer, call.loops + 1) :
           call' = [call EXCEPT !.fn = "nextLoop",
                                !.args = <<call.loops + 1>>,
                                !.result = o.plan,
                                !.optimizer = o.optimizer,
                                !.before = call.optimizer,
                                !.plan = o.plan,
                                !.loops = @ + 1,
                                !.calls = @ + 1]
    /\ UNCHANGED <<runnerVars, storeVars, namelixVars, goDaddyVars>>

\* optimizer.recordReward(plan, reward), for the plan nextLoop returned last
CallRecordReward(reward) ==
    /\ call.fn \in {"nextLoop", "recordReward"}
    /\ call.calls < MaxOptimizerCalls
    /\ LET recorded == recordReward(call.optimizer, call.plan, reward)
       IN  call' = [call EXCEPT !.fn = "recordReward",
                                !.args = <<call.plan, reward>>,
                                !.result = recorded.tuningStep,
                                !.optimizer = recorded.optimizer,
                                !.before = call.optimizer,
                                !.calls = @ + 1]
    /\ UNCHANGED <<runnerVars, storeVars, namelixVars, goDaddyVars>>

OptimizerNext ==
    \/ CallNextLoop
    \/ \E reward \in RawRewards : CallRecordReward(reward)

OptimizerSpec == OptimizerInit /\ [][OptimizerNext]_vars

------------------------------------------------------------------------------
(* lib/search/optimizer.ts: two optimizers a and b built from one request,  *)
(* one model object and one seed, each driven through its loops             *)

MaxPairLoops == 2

Optimizers == {"a", "b"}

\* a model earlier runs have left: a liked token, a disliked one, a played arm
LearnedModel ==
    [createDefaultOptimizerModelState EXCEPT
        !.runCount = 3,
        !.styleBandit["brandable"] = [plays |-> 2, reward |-> 150],
        !.tokenStats = <<[token |-> <<"z", "z">>, plays |-> 2, reward |-> 180],
                         [token |-> <<"b", "b">>, plays |-> 2, reward |-> 40]>>]

PairRequests ==
    {[keywords |-> keywords,
      description |-> description,
      style |-> "default",
      randomness |-> "medium",
      maxLength |-> 5,
      tld |-> <<"c", "o", "m">>,
      maxNames |-> 1,
      yearlyBudget |-> 2000,
      loopCount |-> 2] :
        keywords \in {<<"a", "a", " ", "b", "b", " ", "c", "c", " ", "d", "d", " ", "e", "e">>},
        description \in {<<>>, <<"f", "f", " ", "g", "g">>}}

PairSeeds == {14, 77, 1234}

PairRewards == {Finite(20), Finite(90)}

\* an optimizer with the value of the object its model refers to
Dereferenced(heap, built) == [built EXCEPT !.model = heap[built.model]]

\* the caller holds one model object and has made no optimizer yet
PairInit ==
    /\ Quiet
    /\ call \in {[fn |-> "none",
                   args |-> <<request, seed>>,
                   returned |-> FALSE,
                   result |-> <<>>,
                   heap |-> <<given>>,
                   optimizers |-> [who \in Optimizers |-> NoOptimizer],
                   plans |-> [who \in Optimizers |-> <<>>],
                   rewards |-> [who \in Optimizers |-> <<>>],
                   who |-> "none",
                   before |-> <<>>] :
                      request \in PairRequests, seed \in PairSeeds,
                      given \in {createDefaultOptimizerModelState, LearnedModel}}

\* what the optimizers other than who are, with their models
Others(heap, optimizers, who) ==
    [other \in Optimizers \ {who} |->
        IF optimizers[other] = NoOptimizer THEN NoOptimizer
        ELSE Dereferenced(heap, optimizers[other])]

\* who = new DomainSearchOptimizer(request, modelState, seed)
Construct(who) ==
    /\ call.optimizers[who] = NoOptimizer
    /\ LET own == OwnModel(call.heap, 1)
       IN  call' = [call EXCEPT
                       !.fn = "constructor",
                       !.returned = TRUE,
                       !.heap = own.heap,
                       !.optimizers[who] =
                           SeededOptimizer(call.args[1], own.model, call.args[2]),
                       !.who = who,
                       !.before = Others(call.heap, call.optimizers, who)]
    /\ UNCHANGED <<runnerVars, storeVars, namelixVars, goDaddyVars>>

\* who.nextLoop(loop), once the plan before has its reward
PairNextLoop(who) ==
    /\ call.optimizers[who] # NoOptimizer
    /\ Len(call.plans[who]) < MaxPairLoops
    /\ Len(call.rewards[who]) = Len(call.plans[who])
    /\ \E next \in {nextLoopWith(Dereferenced(call.heap, call.optimizers[who]),
                                   Len(call.plans[who]) + 1)} :
           call' = [call EXCEPT
                       !.fn = "nextLoop",
                       !.result = next.plan,
                       !.heap[call.optimizers[who].model] = next.optimizer.model,
                       !.optimizers[who] =
                           [next.optimizer EXCEPT !.model = call.optimizers[who].model],
                       !.plans[who] = Append(@, next.plan),
                       !.who = who,
                       !.before = Others(call.heap, call.optimizers, who)]
    /\ UNCHANGED <<runnerVars, storeVars, namelixVars, goDaddyVars>>

\* who.recordReward(plan, reward) for the plan who.nextLoop returned last
PairRecordReward(who, reward) ==
    /\ call.optimizers[who] # NoOptimizer
    /\ Len(call.rewards[who]) < Len(call.plans[who])
    /\ \E recorded \in
               {recordReward(Dereferenced(call.heap, call.optimizers[who]),
                             call.plans[who][Len(call.plans[who])], reward)} :
           call' = [call EXCEPT
                       !.fn = "recordReward",
                       !.result = recorded.tuningStep,
                       !.heap[call.optimizers[who].model] = recorded.optimizer.model,
                       !.optimizers[who] =
                           [recorded.optimizer EXCEPT !.model = call.optimizers[who].model],
                       !.rewards[who] = Append(@, reward),
                       !.who = who,
                       !.before = Others(call.heap, call.optimizers, who)]
    /\ UNCHANGED <<runnerVars, storeVars, namelixVars, goDaddyVars>>

PairNext ==
    \E who \in Optimizers :
        \/ Construct(who)
        \/ PairNextLoop(who)
        \/ \E reward \in PairRewards : PairRecordReward(who, reward)

PairSpec == PairInit /\ [][PairNext]_vars

-----------------------------------------------------------------------------
(* lib/search/scoring.ts: scoreDomainResult called on its own, and called  *)
(* again on the same result at another price                               *)

\* the domains scored: a plain label, a hyphen and a digit, a consonant run
\* under a compound TLD, a name without a dot, and a twenty-letter label
ScoredDomains ==
    {<<"n","o","v","a",".","c","o","m">>,
     <<"P","i","x","-","9",".","i","o">>,
     <<"s","t","r","n","g","t","h","s",".","c","o",".","u","k">>,
     <<"n","o","v","a">>,
     <<"a","e","a","e","a","e","a","e","a","e","a","e","a","e","a","e","a","e","a","e",
       ".","x","y","z">>}

\* prices in millionths as the provider reports them: none, free, $1, $3,
\* $10, $10.01, $20 and $50
ScoredPriceMicros == {NoPrice, 0, 1000000, 3000000, 10000000, 10010000, 20000000, 50000000}

\* yearly budgets in cents: $0.50, $20 and $500
ScoredBudgets == {50, 2000, 50000}

\* the provider's rows a result is made from
ScoredItems ==
    {[domain |-> domain,
      sourceName |-> Nova,
      isNamelixPremium |-> isNamelixPremium,
      available |-> available,
      definitive |-> definitive,
      priceMicros |-> priceMicros] :
        domain \in ScoredDomains,
        isNamelixPremium \in BOOLEAN,
        available \in BOOLEAN,
        definitive \in BOOLEAN,
        priceMicros \in ScoredPriceMicros}

\* validated requests
ScoredRequests ==
    {[keywords |-> Nova,
      description |-> description,
      style |-> "default",
      randomness |-> "medium",
      maxLength |-> 5,
      tld |-> <<"c","o","m">>,
      maxNames |-> 1,
      yearlyBudget |-> yearlyBudget,
      loopCount |-> 1] :
        description \in {<<>>, Pix},
        yearlyBudget \in ScoredBudgets}

ScoreInit ==
    /\ Quiet
    /\ call \in {[fn |-> "scoreDomainResult",
                  args |-> <<toDomainResult(item, request.yearlyBudget), request>>,
                  returned |-> FALSE,
                  result |-> <<>>,
                  before |-> NoCall] :
                    item \in ScoredItems, request \in ScoredRequests}

CallScoreDomainResult ==
    /\ Called("scoreDomainResult")
    /\ Returns(scoreDomainResult(call.args[1], call.args[2]))

\* the same row at another price, made into a result and scored for the same
\* request
CallAtOtherPrice(priceMicros) ==
    /\ call.fn = "scoreDomainResult"
    /\ call.returned
    /\ call.before = NoCall
    /\ priceMicros # call.args[1].priceMicros
    /\ \E result \in {toDomainResult([domain |-> call.args[1].domain,
                                      sourceName |-> call.args[1].sourceName,
                                      isNamelixPremium |-> call.args[1].isNamelixPremium,
                                      available |-> call.args[1].available,
                                      definitive |-> call.args[1].definitive,
                                      priceMicros |-> priceMicros],
                                     call.args[2].yearlyBudget)} :
          call' = [fn |-> "scoreDomainResult",
                   args |-> <<result, call.args[2]>>,
                   returned |-> TRUE,
                   result |-> scoreDomainResult(result, call.args[2]),
                   before |-> [fn |-> call.fn, args |-> call.args,
                               returned |-> TRUE, result |-> call.result]]
    /\ UNCHANGED <<runnerVars, storeVars, namelixVars, goDaddyVars>>

ScoreNext ==
    \/ CallScoreDomainResult
    \/ \E priceMicros \in ScoredPriceMicros : CallAtOtherPrice(priceMicros)

ScoreSpec == ScoreInit /\ [][ScoreNext]_vars

-----------------------------------------------------------------------------
(* lib/search/sort.ts: sortRankedDomains called on an array of the heap,   *)
(* and called again on the array it returned                               *)

SortModes == {"marketability", "financialValue", "alphabetical", "syllableCount",
              "labelLength"}

MaxSortedRows == 3

\* two labels that score alike, a label that matches the keyword, and one
\* with a hyphen and a digit
SortedDomains ==
    {<<"n","o","v","a",".","c","o","m">>,
     <<"n","a","v","e",".","c","o","m">>,
     <<"p","i","x",".","c","o","m">>,
     <<"p","i","x","-","9",".","c","o","m">>}

SortedRequest ==
    [keywords |-> Pix,
     description |-> <<>>,
     style |-> "default",
     randomness |-> "medium",
     maxLength |-> 5,
     tld |-> <<"c","o","m">>,
     maxNames |-> MaxSortedRows,
     yearlyBudget |-> 2000,
     loopCount |-> 1]

\* available rows of the provider, unpriced or at $10
SortedItems ==
    {[domain |-> domain,
      sourceName |-> Pix,
      isNamelixPremium |-> FALSE,
      available |-> TRUE,
      definitive |-> TRUE,
      priceMicros |-> priceMicros] :
        domain \in SortedDomains,
        priceMicros \in {NoPrice, 10000000}}

\* the ranked rows of up to MaxSortedRows of them, in the order given
SortedInputs ==
    {RankedFrom(items, SortedRequest, 1) :
        items \in UNION {[1..n -> SortedItems] : n \in 0..MaxSortedRows}}

\* sortRankedDomains on the array at address rows: [...rows] is a new array,
\* sorted in place and returned
sortRankedDomainsAt(heap, rows, mode) ==
    [heap |-> Append(heap, sortRankedDomains(heap[rows], mode)),
     result |-> Len(heap) + 1]

SortInit ==
    /\ Quiet
    /\ call \in {[fn |-> "sortRankedDomains",
                  args |-> <<1, mode>>,
                  heap |-> <<rows>>,
                  rows |-> rows,
                  returned |-> FALSE,
                  result |-> 0,
                  before |-> 0] :
                    rows \in SortedInputs, mode \in SortModes}

CallSortRankedDomains ==
    /\ Called("sortRankedDomains")
    /\ \E sorted \in {sortRankedDomainsAt(call.heap, call.args[1], call.args[2])} :
          call' = [call EXCEPT !.heap = sorted.heap,
                               !.returned = TRUE,
                               !.result = sorted.result]
    /\ UNCHANGED <<runnerVars, storeVars, namelixVars, goDaddyVars>>

\* the array just returned is sorted again in the same mode; before is the
\* address of the array the first call was given
SortAgain ==
    /\ call.fn = "sortRankedDomains"
    /\ call.returned
    /\ call.before = 0
    /\ \E sorted \in {sortRankedDomainsAt(call.heap, call.result, call.args[2])} :
          call' = [call EXCEPT !.args = <<call.result, call.args[2]>>,
                               !.heap = sorted.heap,
                               !.result = sorted.result,
                               !.before = call.args[1]]
    /\ UNCHANGED <<runnerVars, storeVars, namelixVars, goDaddyVars>>

SortNext == CallSortRankedDomains \/ SortAgain

SortSpec == SortInit /\ [][SortNext]_vars

-----------------------------------------------------------------------------
(* lib/godaddy/client.ts: chunkDomains called on its own                   *)

MaxChunkedDomains == 6
MaxChunkSize == 4

\* the domains of the lists that are chunked (a list may name one twice)
ChunkedDomains ==
    {<<"n","o","v","a",".","c","o","m">>, <<"p","i","x",".","c","o","m">>}

\* the chunk sizes passed, and the default of a call without one
ChunkSizes == 1..MaxChunkSize \cup {CHUNK_SIZE}

SplitInit ==
    /\ Quiet
    /\ call \in {[NoCall EXCEPT !.fn = "chunkDomains", !.args = <<domains, chunkSize>>] :
                    domains \in UNION {[1..n -> ChunkedDomains] : n \in 0..MaxChunkedDomains},
                    chunkSize \in ChunkSizes}

CallChunkDomains ==
    /\ Called("chunkDomains")
    /\ Returns(chunkDomains(call.args[1], call.args[2]))

SplitNext == CallChunkDomains

SplitSpec == SplitInit /\ [][SplitNext]_vars

-----------------------------------------------------------------------------
(* lib/jobs/store.ts: the registry under the calls the route and the runs  *)
(* of several jobs make of it, the cleanup timer, and the clock advancing  *)
(* while jobs are queued and running                                       *)

MaxRegistryJobs == 2
MaxRegistryTicks == 3

\* the clock advances in steps of a quarter of an hour
RegistryTickMs == 15 * 60 * 1000

RegistryInputs ==
    {request \in SearchRequests :
        request.maxNames = 1 /\ request.tld = <<"c", "o", "m">>}

\* the patch of a run in progress, and a patch that also names an id and an
\* input, which Partial<SearchJob> allows
RegistryPatches ==
    {[status |-> "running", phase |-> "looping", progress |-> 50,
      currentLoop |-> 1, totalLoops |-> 1],
     [status |-> "running", phase |-> "looping", progress |-> 50,
      currentLoop |-> 1, totalLoops |-> 1, id |-> 0, input |-> NoInput]}

\* what the registry's calls leave alone
registryUnchanged ==
    <<modelFile, pc, settled, thrown, found, modelCalls, jobId, runLocals, loopLocals,
      storeVars, namelixVars, goDaddyVars>>

\* call.position: where the run of each job stands; call.missed: the jobs one
\* of whose updates did not find its document; call.submitted: the request
\* each job was created with
RegistryInit ==
    /\ Quiet
    /\ call = [fn |-> "jobs", position |-> <<>>, missed |-> {}, submitted |-> <<>>]

\* whether the job's document is there for the update that follows
Looked(id) == IF id \in DOMAIN jobs THEN call.missed ELSE call.missed \cup {id}

\* POST /api/searches: createJob
SubmitJob(input) ==
    /\ call.fn = "jobs"
    /\ Cardinality(issuedIds) < MaxRegistryJobs
    /\ \E id \in {Cardinality(issuedIds) + 1} :
          /\ jobs' = createJob(jobs, id, input, now)
          /\ issuedIds' = issuedIds \cup {id}
          /\ call' = [call EXCEPT !.position = Append(@, "queued"),
                                   !.submitted = Append(@, input)]
    /\ UNCHANGED <<now, registryUnchanged>>

\* runSearchJob: markJobRunning
StartJob(id) ==
    /\ call.fn = "jobs"
    /\ call.position[id] = "queued"
    /\ jobs' = markJobRunning(jobs, id, "looping", 5, now)
    /\ call' = [call EXCEPT !.position[id] = "running", !.missed = Looked(id)]
    /\ UNCHANGED <<now, issuedIds, registryUnchanged>>

\* runSearchJob: a patchJob of the run in progress
UpdateJob(id, patch) ==
    /\ call.fn = "jobs"
    /\ call.position[id] = "running"
    /\ jobs' = patchJob(jobs, id, patch, now)
    /\ call' = [call EXCEPT !.missed = Looked(id)]
    /\ UNCHANGED <<now, issuedIds, registryUnchanged>>

\* runSearchJob: markJobComplete
CompleteJob(id) ==
    /\ call.fn = "jobs"
    /\ call.position[id] = "running"
    /\ jobs' = markJobComplete(jobs, id, buildResultsSnapshot(<<>>, <<>>, <<>>), now)
    /\ call' = [call EXCEPT !.position[id] = "ended", !.missed = Looked(id)]
    /\ UNCHANGED <<now, issuedIds, registryUnchanged>>

\* runSearchJob: markJobFailed
FailJob(id) ==
    /\ call.fn = "jobs"
    /\ call.position[id] = "running"
    /\ jobs' = markJobFailed(jobs, id,
                             [code |-> "INTERNAL_ERROR", message |-> "Unexpected error."],
                             now)
    /\ call' = [call EXCEPT !.position[id] = "ended", !.missed = Looked(id)]
    /\ UNCHANGED <<now, issuedIds, registryUnchanged>>

\* the interval timer of getStore: cleanupExpiredJobs
Sweep ==
    /\ call.fn = "jobs"
    /\ jobs' = cleanupExpiredJobs(jobs, now)
    /\ UNCHANGED <<now, issuedIds, call, registryUnchanged>>

\* time passes, whatever the jobs are doing
Advance ==
    /\ call.fn = "jobs"
    /\ now < TickMs + MaxRegistryTicks * RegistryTickMs
    /\ now' = now + RegistryTickMs
    /\ UNCHANGED <<jobs, issuedIds, call, registryUnchanged>>

RegistryNext ==
    \/ \E input \in RegistryInputs : SubmitJob(input)
    \/ \E id \in issuedIds : StartJob(id)
    \/ \E id \in issuedIds, patch \in RegistryPatches : UpdateJob(id, patch)
    \/ \E id \in issuedIds : CompleteJob(id)
    \/ \E id \in issuedIds : FailJob(id)
    \/ Sweep
    \/ Advance

RegistrySpec == RegistryInit /\ [][RegistryNext]_vars

-----------------------------------------------------------------------------
(* lib/godaddy/client.ts: checkAvailabilityBulk with its chunks' tasks      *)
(* completing in any order, when no request throws                          *)

\* the sizes of the lists of domains: up to MaxExtraDomains, and as many
\* above CHUNK_SIZE
MaxExtraDomains == 2
BulkSizes == 0..MaxExtraDomains \cup {CHUNK_SIZE + n : n \in 1..MaxExtraDomains}

\* the i-th domain as the caller writes it, with a capital
RawDomain(i) == BulkName(i - 1) \o <<".", "c", "o", "m">>

\* the lists of domains given: n different domains, followed or not by the
\* first one in lower case, the last one between spaces, a blank string and
\* an empty string
BulkDomainLists ==
    {[i \in 1..n |-> RawDomain(i)] : n \in BulkSizes}
    \cup {[i \in 1..n |-> RawDomain(i)]
              \o <<toLowerCase(RawDomain(1)), <<" ">> \o RawDomain(n) \o <<" ">>,
                   <<" ", " ">>, <<>>>> : n \in BulkSizes \ {0}}

\* what the provider can answer 200 with for a chunk: every domain available
\* at $1, nothing, only the first domain (taken, and written with a capital),
\* or the first domain under errors and the others available
PayloadsFor(chunk) ==
    LET free(d) == [domain |-> d, available |-> TRUE, definitive |-> TRUE,
                    priceMicros |-> 1000000]
        taken(d) == [domain |-> d, available |-> FALSE, definitive |-> TRUE,
                     priceMicros |-> NoPrice]
        Capital(d) == <<UpperLetters[CHOOSE i \in 1..26 : LowerLetters[i] = d[1]]>> \o Tail(d)
    IN  {[domains |-> [i \in 1..Len(chunk) |-> free(chunk[i])], errors |-> <<>>],
         [domains |-> <<>>, errors |-> <<>>],
         [domains |-> <<taken(Capital(chunk[1]))>>, errors |-> <<>>],
         [domains |-> [i \in 1..(Len(chunk) - 1) |-> free(chunk[i + 1])],
          errors |-> <<[domain |-> chunk[1], message |-> "UNSUPPORTED_TLD"]>>]}

MapInit ==
    /\ Quiet
    /\ call \in {[fn |-> "checkAvailabilityBulk", args |-> domains, pc |-> "called",
                  chunks |-> <<>>, pending |-> {}, order |-> <<>>, payloads |-> <<>>,
                  resultMap |-> <<>>, returned |-> FALSE] : domains \in BulkDomainLists}

\* normalized and chunks; every chunk's task is handed to runGoDaddyQueued
StartBulk ==
    /\ call.pc = "called"
    /\ \E chunks \in {chunkDomains(NormalizedDomains(call.args), CHUNK_SIZE)} :
           call' = [call EXCEPT !.pc = "waiting",
                                !.chunks = chunks,
                                !.pending = 1..Len(chunks),
                                !.payloads = [k \in 1..Len(chunks) |-> <<>>]]
    /\ UNCHANGED <<runnerVars, storeVars, namelixVars, goDaddyVars>>

\* requestAvailabilityChunk returns for chunk k and its task sets its entries
ChunkCompletes(k, payload) ==
    /\ call.pc = "waiting"
    /\ k \in call.pending
    /\ call' = [call EXCEPT !.pending = @ \ {k},
                            !.order = Append(@, k),
                            !.payloads[k] = <<payload>>,
                            !.resultMap = SetPayload(@, payload)]
    /\ UNCHANGED <<runnerVars, storeVars, namelixVars, goDaddyVars>>

\* Promise.all resolves: the missing entries are filled and the map returned
ReturnBulk ==
    /\ call.pc = "waiting"
    /\ call.pending = {}
    /\ call' = [call EXCEPT !.pc = "returned",
                            !.returned = TRUE,
                            !.resultMap = FillMissing(NormalizedDomains(call.args), @)]
    /\ UNCHANGED <<runnerVars, storeVars, namelixVars, goDaddyVars>>

MapNext ==
    \/ StartBulk
    \/ \E k \in 1..Len(call.chunks) : \E payload \in PayloadsFor(call.chunks[k]) :
           ChunkCompletes(k, payload)
    \/ ReturnBulk

MapSpec == MapInit /\ [][MapNext]_vars

-----------------------------------------------------------------------------
(* lib/search/optimizer.ts: chooseArm on its own, over the randomness arms, *)
(* with the random source of a new optimizer                                *)

\* the statistics of an arm: unplayed, or played once or twice (cumulative
\* reward in hundredths; 110 over two plays is the average of an unplayed arm)
ArmStatsValues ==
    {createArmStats,
     [plays |-> 1, reward |-> 30],
     [plays |-> 1, reward |-> 55],
     [plays |-> 1, reward |-> 80],
     [plays |-> 2, reward |-> 110]}

ArmBandits == [Range(RANDOMNESS_VALUES) -> ArmStatsValues]

\* the seeds of the random source (Date.now() by default)
MaxArmSeed == 8
ArmSeeds == 1..MaxArmSeed

\* random() < epsilon for the first number of the source
Explores(seed, epsilon) == BelowPercent(mulberry32(ToWord(seed)).value, epsilon)

ArmInit ==
    /\ Quiet
    /\ call \in {[NoCall EXCEPT !.fn = "chooseArm", !.args = <<bandit, seed>>] :
                    bandit \in ArmBandits, seed \in ArmSeeds}

CallChooseArm ==
    /\ Called("chooseArm")
    /\ Returns(chooseArmWith(call.args[1], RANDOMNESS_VALUES, RANDOMNESS_EPSILON,
                             ToWord(call.args[2])).arm)

ArmNext == CallChooseArm

ArmSpec == ArmInit /\ [][ArmNext]_vars

-----------------------------------------------------------------------------
(* Properties                                                               *)

StatusRank(status) ==
    IF status = "queued" THEN 0 ELSE IF status = "running" THEN 1 ELSE 2

Terminal(status) == status \in {"done", "failed"}

\* the jobs the registry holds before and after a step
Surviving == DOMAIN jobs \cap DOMAIN jobs'

\* the domains of a published snapshot's allRanked
RankedDomains(results) ==
    {toLowerCase(results.allRanked[i].domain) : i \in 1..Len(results.allRanked)}

\* the lower-cased domains that qualified in loop n of the run
FoundDomains(n) == {toLowerCase(found[n][i].domain) : i \in 1..Len(found[n])}

TotalPlays(bandit, arms) == SumSeq([i \in 1..Len(arms) |-> bandit[arms[i]].plays])

\* the step that ends a loop of the run
CommitStep == Len(tuningHistory') = Len(tuningHistory) + 1

JobErrorCodes == {"NAMELIX_SCRAPE_FAILED", "GODADDY_AUTH_FAILED", "GODADDY_RATE_LIMIT",
                  "GODADDY_API_ERROR", "INTERNAL_ERROR"}

\* C2: whatever is thrown during a run, the promise of runSearchJob is
\* fulfilled, never rejected, and the job is left failed with an error that
\* carries a message (the thrown value's own, which may be empty, or the
\* fallback text) and one of the five codes
C2_ErrorsEndTheJobFailed ==
    /\ settled # "rejected"
    /\ thrown # NoError =>
           /\ settled = "fulfilled"
           /\ jobId \in DOMAIN jobs =>
                  /\ jobs[jobId].status = "failed"
                  /\ Len(jobs[jobId].error) = 1
                  /\ jobs[jobId].error[1].code \in JobErrorCodes
                  /\ "message" \in DOMAIN jobs[jobId].error[1]
                  /\ thrown.class = "NonError" => jobs[jobId].error[1].message # ""
                  /\ thrown.class # "NonError" =>
                         jobs[jobId].error[1].message = thrown.message

\* a value that is no Error was thrown by the availability check
C2_Witness ==
    /\ thrown.class = "NonError"
    /\ jobId \in DOMAIN jobs
    /\ jobs[jobId].status = "failed"
    /\ jobs[jobId].error[1].code = "INTERNAL_ERROR"

\* C3: a job's progress is an integer in 0..100 and no update of the registry
\* lowers it
C3_ProgressNeverDecreases ==
    [][\A j \in Surviving :
          /\ jobs'[j].progress \in 0..100
          /\ jobs'[j].progress >= jobs[j].progress]_vars

\* C4: the domains of allRanked of a published snapshot include those of the
\* snapshot published before it
C4_SnapshotsOnlyGrow ==
    [][\A j \in Surviving :
          (jobs[j].results # <<>> /\ jobs'[j].results # <<>>) =>
              RankedDomains(jobs[j].results[1]) \subseteq
                  RankedDomains(jobs'[j].results[1])]_vars

\* C5: once the plan of loop N+1 has been requested, every loop up to N has
\* its qualifying domains merged into the aggregate and its reward recorded in
\* the optimizer's bandits and in the tuning history
C5_LoopCommittedBeforeNextPlan ==
    plan.loop # NoLoop =>
        /\ Len(tuningHistory) >= plan.loop - 1
        /\ TotalPlays(optimizer.model.styleBandit, STYLE_VALUES)
               >= TotalPlays(modelState.styleBandit, STYLE_VALUES) + plan.loop - 1
        /\ TotalPlays(optimizer.model.mutationBandit, MUTATION_INTENSITY_VALUES)
               >= TotalPlays(modelState.mutationBandit, MUTATION_INTENSITY_VALUES)
                      + plan.loop - 1
        /\ \A n \in 1..(plan.loop - 1) :
               /\ tuningHistory[n].loop = n
               /\ \A d \in FoundDomains(n) :
                      d \in DOMAIN aggregate /\ aggregate[d].lastSeenLoop >= n

\* the plan of loop 2 has been requested after a loop 1 that found a domain
C5_Witness ==
    /\ plan.loop = 2
    /\ pc = "batchHead"
    /\ FoundDomains(1) # {}

\* C6: a done job holds exactly loopCount summaries numbered 1..loopCount,
\* exactly loopCount tuning steps, and currentLoop = totalLoops = loopCount
C6_DoneJobRanEveryLoop ==
    \A j \in DOMAIN jobs :
        jobs[j].status = "done" =>
            /\ Len(jobs[j].results) = 1
            /\ Len(jobs[j].results[1].loopSummaries) = jobs[j].input.loopCount
            /\ \A i \in 1..Len(jobs[j].results[1].loopSummaries) :
                   jobs[j].results[1].loopSummaries[i].loop = i
            /\ Len(jobs[j].results[1].tuningHistory) = jobs[j].input.loopCount
            /\ jobs[j].currentLoop = jobs[j].input.loopCount
            /\ jobs[j].totalLoops = jobs[j].input.loopCount

\* a job of two loops is done
C6_Witness ==
    \E j \in DOMAIN jobs :
        /\ jobs[j].status = "done"
        /\ jobs[j].input.loopCount = 2
        /\ Len(jobs[j].results[1].loopSummaries) = 2

\* C7: the merge that ends a loop keeps one entry per lower-cased domain; a
\* domain new to the aggregate enters with firstSeenLoop = lastSeenLoop = the
\* loop and timesDiscovered = 1; a domain already there keeps firstSeenLoop,
\* gets lastSeenLoop = the loop and timesDiscovered + 1; the others are left
\* alone
C7_MergeKeepsProvenance ==
    [][CommitStep =>
          /\ DOMAIN aggregate' = DOMAIN aggregate \cup FoundDomains(loop)
          /\ \A k \in DOMAIN aggregate' :
                 /\ toLowerCase(aggregate'[k].domain) = k
                 /\ IF k \notin DOMAIN aggregate
                    THEN /\ aggregate'[k].firstSeenLoop = loop
                         /\ aggregate'[k].lastSeenLoop = loop
                         /\ aggregate'[k].timesDiscovered = 1
                    ELSE IF k \in FoundDomains(loop)
                    THEN /\ aggregate'[k].firstSeenLoop = aggregate[k].firstSeenLoop
                         /\ aggregate'[k].lastSeenLoop = loop
                         /\ aggregate'[k].timesDiscovered =
                                aggregate[k].timesDiscovered + 1
                    ELSE aggregate'[k] = aggregate[k]]_vars

\* a domain found in loops 1 and 2, its record replaced in loop 2, ends with
\* 1, 2 and 2
C7_Witness ==
    \E k \in DOMAIN aggregate :
        /\ aggregate[k].firstSeenLoop = 1
        /\ aggregate[k].lastSeenLoop = 2
        /\ aggregate[k].timesDiscovered = 2
        /\ aggregate[k].priceMicros # found[1][1].priceMicros

\* a record's fields other than the three the merge stamps
Display(row) ==
    [f \in DOMAIN row \ {"firstSeenLoop", "lastSeenLoop", "timesDiscovered"} |-> row[f]]

\* p is a lower price than q, an unknown price being the highest
LowerPrice(p, q) == p # NoPrice /\ (q = NoPrice \/ p < q)

\* the record that the scoring of the loop's qualifying candidates holds for
\* the domain k
CandidateFor(k) ==
    LET ranked == scoreIterationResults(loopRawAvailable, plan.input, loop).ranked
    IN  ranked[CHOOSE i \in 1..Len(ranked) : toLowerCase(ranked[i].domain) = k]

\* the record C8 says a merge keeps
Winner(existing, candidate) ==
    IF candidate.overallScore > existing.overallScore THEN candidate
    ELSE IF candidate.overallScore = existing.overallScore
            /\ LowerPrice(candidate.price, existing.price) THEN candidate
    ELSE existing

\* C8: merging a candidate into an existing entry keeps the record with the
\* higher overallScore, on equal scores the one with the lower price, otherwise
\* the existing one; the overallScore kept for a domain never decreases
C8_MergeKeepsTheBetterRecord ==
    [][/\ CommitStep =>
              \A k \in DOMAIN aggregate \cap FoundDomains(loop) :
                  Display(aggregate'[k]) = Display(Winner(aggregate[k], CandidateFor(k)))
       /\ jobId' = jobId =>
              \A k \in DOMAIN aggregate :
                  /\ k \in DOMAIN aggregate'
                  /\ aggregate'[k].overallScore >= aggregate[k].overallScore]_vars

\* a domain found at $1.999999 in loop 1 and at $1 in loop 2, which score the
\* same, is kept at the lower price
C8_Witness ==
    \E k \in DOMAIN aggregate :
        /\ aggregate[k].timesDiscovered = 2
        /\ aggregate[k].priceMicros = 1000000
        /\ found[1][1].priceMicros = 1999999
        /\ toLowerCase(found[1][1].domain) = k

\* the answer of the batch's availability map that let a candidate qualify
QualifiedByAnswer(raw, input) ==
    raw.domain \in DOMAIN availabilityMap =>
        /\ availabilityMap[raw.domain].available
        /\ \/ availabilityMap[raw.domain].priceMicros = NoPrice
           \/ microsToPrice(availabilityMap[raw.domain].priceMicros) <= input.yearlyBudget

C10_QuotaCountsOnlyQualifying ==
    /\ plan.loop # NoLoop =>
           /\ Len(loopRawAvailable) <= plan.input.maxNames
           /\ \A i \in 1..Len(loopRawAvailable) :
                  /\ loopRawAvailable[i].available
                  /\ \/ loopRawAvailable[i].priceMicros = NoPrice
                     \/ microsToPrice(loopRawAvailable[i].priceMicros)
                            <= plan.input.yearlyBudget
    /\ pc = "live" =>
           \A c \in Range(freshCandidates) :
               (c.domain \in DOMAIN availabilityMap
                /\ ~availabilityMap[c.domain].available) =>
                   \A i \in 1..Len(loopRawAvailable) :
                       loopRawAvailable[i].domain # c.domain
    /\ (jobId \in DOMAIN jobs /\ jobs[jobId].results # <<>>) =>
           \A i \in 1..Len(jobs[jobId].results[1].loopSummaries) :
               /\ Len(found[i]) <= jobs[jobId].input.maxNames
               /\ jobs[jobId].results[1].loopSummaries[i].quotaMet
                      <=> (Len(found[i]) = jobs[jobId].input.maxNames)

\* a loop of quota 2 met its quota
C10_Witness ==
    /\ jobId \in DOMAIN jobs
    /\ jobs[jobId].results # <<>>
    /\ jobs[jobId].input.maxNames = 2
    /\ Len(jobs[jobId].results[1].loopSummaries) = 1
    /\ jobs[jobId].results[1].loopSummaries[1].quotaMet
    /\ Len(found[1]) = 2

\* C11: a loop that ended with at least 251 candidates considered and fewer
\* than maxNames qualifying has a summary with limitHit = true, quotaMet =
\* false and the skipReason of the 251 cap, and every candidate that qualified
\* in it is in the aggregate
C11_CapHitKeepsPartialResults ==
    \A i \in 1..Len(loopSummaries) :
        (/\ loopSummaries[i].consideredCount >= LOOP_CONSIDERED_LIMIT
         /\ Len(found[loopSummaries[i].loop]) < loopSummaries[i].requiredQuota) =>
            /\ loopSummaries[i].limitHit
            /\ ~loopSummaries[i].quotaMet
            /\ loopSummaries[i].skipReason = ConsideredCapReason
            /\ loopSummaries[i].skipReason.limit = 251
            /\ FoundDomains(loopSummaries[i].loop) \subseteq DOMAIN aggregate

\* a finished job whose loop stopped at the cap with some, but not enough,
\* qualifying candidates, all of them published
C11_Witness ==
    /\ jobId \in DOMAIN jobs
    /\ jobs[jobId].status = "done"
    /\ Len(loopSummaries) = 1
    /\ loopSummaries[1].consideredCount >= LOOP_CONSIDERED_LIMIT
    /\ loopSummaries[1].limitHit
    /\ Len(found[1]) > 0
    /\ Len(found[1]) < loopSummaries[1].requiredQuota
    /\ FoundDomains(1) = RankedDomains(jobs[jobId].results[1])

\* C12: the number of distinct candidates a loop has considered, each of them
\* sent to the availability check, never exceeds 251, while the loop runs and
\* in its summary
C12_ConsideredNeverExceedsCap ==
    /\ consideredCount <= LOOP_CONSIDERED_LIMIT
    /\ \A i \in 1..Len(loopSummaries) :
           loopSummaries[i].consideredCount <= LOOP_CONSIDERED_LIMIT

\* C13: a loop summary carries a skipReason exactly when its quotaMet is false
C13_SkipReasonIffQuotaMissed ==
    \A i \in 1..Len(loopSummaries) :
        (loopSummaries[i].skipReason # NoSkipReason) <=> ~loopSummaries[i].quotaMet

\* the error classes requestAvailabilityChunk throws on a provider response
ProviderErrorClasses == {"GoDaddyAuthError", "GoDaddyApiError", "GoDaddyRateLimitError"}

\* C14: when the availability check of a batch ends in a provider error on
\* its chunk, the loop is not aborted: the job stays running, the batch goes
\* on to its live publish, and none of the batch's candidates qualifies
C14_ChunkErrorDoesNotAbortLoop ==
    [][(/\ pc = "checking"
        /\ thrown' # thrown
        /\ thrown'.class \in ProviderErrorClasses) =>
           /\ jobs'[jobId].status = "running"
           /\ jobs'[jobId].error = <<>>
           /\ pc' = "live"
           /\ loopRawAvailable' = loopRawAvailable]_vars

\* the calls of the given operation among the run's calls of the model store
CallsOf(op) == {i \in 1..Len(modelCalls) : modelCalls[i].op = op}

\* C15: a job that is done loaded the model exactly once, before any loop was
\* planned, and saved it exactly once, after the reward of its last loop was
\* recorded and while it was still running; a job that failed saved nothing
C15_LoadOnceSaveOnce ==
    /\ Cardinality(CallsOf("load")) <= 1
    /\ Cardinality(CallsOf("save")) <= 1
    /\ jobId \in DOMAIN jobs =>
           /\ jobs[jobId].status = "done" =>
                  /\ Len(modelCalls) = 2
                  /\ modelCalls[1].op = "load"
                  /\ modelCalls[1].loop = NoLoop
                  /\ modelCalls[1].rewards = 0
                  /\ modelCalls[2].op = "save"
                  /\ modelCalls[2].loop = jobs[jobId].input.loopCount + 1
                  /\ modelCalls[2].rewards = jobs[jobId].input.loopCount
                  /\ modelCalls[2].status = "running"
           /\ jobs[jobId].status = "failed" => CallsOf("save") = {}

\* a job of two loops that is done, after a load and a save
C15_Witness ==
    /\ jobId \in DOMAIN jobs
    /\ jobs[jobId].status = "done"
    /\ jobs[jobId].input.loopCount = 2
    /\ CallsOf("load") = {1}
    /\ CallsOf("save") = {2}

\* a job that failed in its second loop, after the load
C15_FailedWitness ==
    /\ jobId \in DOMAIN jobs
    /\ jobs[jobId].status = "failed"
    /\ loop = 2
    /\ CallsOf("load") = {1}

\* the content is one complete serialized model: the one found at the start
\* or the payload of a save call
CompleteModel(content) ==
    \/ content = Serialize(PreviousModel)
    \/ \E p \in 1..StoreRuns : runs[p].payload # <<>> /\ content = runs[p].payload

\* C16: at every instant, whatever the interleaving of the save calls and
\* wherever the process exits, the model path names no file or a file that
\* holds one complete serialized model
C16_ModelFileNeverPartial ==
    disk[MODEL_PATH] # NoInode => CompleteModel(inodes[disk[MODEL_PATH]])

\* the model the model path's file parses to in the given file system
Persisted(names, files) ==
    IF names[MODEL_PATH] = NoInode THEN <<>> ELSE Parse(files[names[MODEL_PATH]])

\* C17: every save that replaces a persisted model, whichever run makes it,
\* stores a model whose runCount is strictly greater than the runCount of
\* the model it replaces
C17_RunCountStrictlyIncreases ==
    [][(/\ disk'[MODEL_PATH] # disk[MODEL_PATH]
        /\ Persisted(disk, inodes) # <<>>
        /\ Persisted(disk', inodes') # <<>>) =>
           Persisted(disk', inodes')[1].runCount > Persisted(disk, inodes)[1].runCount]_vars

\* C18: whichever step of the save throws, the await of
\* saveOptimizerModelState returns normally (the run catches nothing) and the
\* job ends done, with the final results of its loops and no error
C18_SaveFailureNeverFailsJob ==
    [][(pc = "saving" /\ pc' # "saving") =>
          /\ jobs'[jobId].status = "done"
          /\ jobs'[jobId].error = <<>>
          /\ jobs'[jobId].results =
                 <<buildResultsSnapshot(aggregate, loopSummaries, tuningHistory)>>
          /\ thrown' = thrown]_vars

\* a job that is done although no save has ever written the model file
C18_Witness ==
    /\ jobId \in DOMAIN jobs
    /\ jobs[jobId].status = "done"
    /\ CallsOf("save") = {2}
    /\ modelFile = <<>>
    /\ jobs[jobId].results[1].allRanked # <<>>

\* a generation task is called in this step
ScrapeStarts == namelixQueue.pc # "running" /\ namelixQueue'.pc = "running"

\* C19: every generation task starts at least the fixed cooldown of 20 s
\* after the previous generation task finished
C19_CooldownAfterPreviousFinish ==
    [][(ScrapeStarts /\ namelixFinishedAt # NoTime) =>
           clock' >= namelixFinishedAt + NAMELIX_BASE_COOLDOWN_MS]_vars

\* C20: in any interval of 60 s at most 30 HTTP requests are sent to the
\* availability provider, re-sends after a 429 included, whichever jobs'
\* chunks they are for
C20_AtMostThirtyRequestsPerMinute ==
    \A i \in 1..Len(requestLog) :
        Cardinality({j \in i..Len(requestLog) :
                        requestLog[j] < requestLog[i] + GODADDY_INTERVAL_MS})
            <= GODADDY_INTERVAL_CAP

\* the attempt's task ended without names: an empty list or a throw
FailedAttempt(outcome) == outcome.kind = "threw" \/ outcome.logos = <<>>

\* C21: scrapeNamelix makes at most three attempts, each of them submitted
\* through the generation queue; it returns the result of the first attempt
\* that yields names and makes no attempt after it, and it throws
\* NamelixScrapeError once the third attempt has failed or yielded no names
C21_ThreeAttemptsThroughTheQueue ==
    /\ scrape.attempt + 1 <= 3
    /\ Len(scrape.outcomes) <= 3
    /\ scrape.pc # "idle" => namelixQueue.added = scrape.attempt + 1
    /\ \A i \in 1..(Len(scrape.outcomes) - 1) : FailedAttempt(scrape.outcomes[i])
    /\ scrape.pc = "returned" =>
           /\ Len(scrape.outcomes) = scrape.attempt + 1
           /\ ~FailedAttempt(scrape.outcomes[Len(scrape.outcomes)])
           /\ scrape.result = scrape.outcomes[Len(scrape.outcomes)].logos
    /\ scrape.pc = "thrown" =>
           /\ Len(scrape.outcomes) = 3
           /\ \A i \in 1..3 : FailedAttempt(scrape.outcomes[i])
           /\ scrape.error.class = "NamelixScrapeError"
    /\ (Len(scrape.outcomes) > 0 /\ FailedAttempt(scrape.outcomes[Len(scrape.outcomes)])) =>
           scrape.pc \in (IF Len(scrape.outcomes) = 3 THEN {"thrown"} ELSE {"backoff", "queued"})

\* a call that returned the names of its third attempt
C21_Witness ==
    /\ scrape.pc = "returned"
    /\ Len(scrape.outcomes) = 3
    /\ scrape.result # <<>>

\* a call that threw after an empty list, an Error and a thrown value that is
\* no Error
C21_ThrownWitness ==
    /\ scrape.pc = "thrown"
    /\ scrape.outcomes[1].kind = "logos"
    /\ scrape.outcomes[2].error.class = "Error"
    /\ scrape.outcomes[3].error.class = "NonError"

\* C22: requestAvailabilityChunk sends at most five requests for a chunk.  Every
\* request before the last was answered 429; a fifth 429 throws
\* GoDaddyRateLimitError, a 401 or 403 throws GoDaddyAuthError and any other
\* status outside 200..299 throws GoDaddyApiError, each on the request that
\* received it; a 2xx answer is returned as the payload.
C22_AtMostFiveRequestsPerChunk ==
    (call.fn = "requestAvailabilityChunk" /\ call.returned) =>
        LET sent == call.result.requests
            last == call.args[call.result.requests]
            class == call.result.error.class
        IN  /\ sent \in 1..5
            /\ \A k \in 1..(sent - 1) : call.args[k].status = 429
            /\ last.status = 429 => sent = 5 /\ class = "GoDaddyRateLimitError"
            /\ last.status \in {401, 403} => class = "GoDaddyAuthError"
            /\ last.status \in {404, 500} => class = "GoDaddyApiError"
            /\ last.status = 200 => /\ call.result.error = NoError
                                    /\ call.result.payload = <<last>>

\* four 429 answers were retried and the fifth threw
C22_Witness ==
    /\ call.fn = "requestAvailabilityChunk"
    /\ call.returned
    /\ call.result.requests = 5
    /\ call.result.error.class = "GoDaddyRateLimitError"

\* a 403 after two retries threw at once
C22_AuthWitness ==
    /\ call.fn = "requestAvailabilityChunk"
    /\ call.returned
    /\ call.result.requests = 3
    /\ call.args[3].status = 403
    /\ call.result.error.class = "GoDaddyAuthError"

\* the arm statistics of a model: those of its three bandits and of its tokens
ArmsOf(model) ==
    {model.styleBandit[arm] : arm \in Range(STYLE_VALUES)}
    \cup {model.randomnessBandit[arm] : arm \in Range(RANDOMNESS_VALUES)}
    \cup {model.mutationBandit[arm] : arm \in Range(MUTATION_INTENSITY_VALUES)}
    \cup {[plays |-> entry.plays, reward |-> entry.reward] :
              entry \in Range(model.tokenStats)}

\* C23: on the default model, after any nextLoop and recordReward calls with
\* rewards that are negative, above 1 or not finite, every arm and every token
\* of the model has 0 <= cumulative reward <= plays (rewards in hundredths).
C23_RewardBoundedBeforeAccumulation ==
    call.fn \in {"constructor", "nextLoop", "recordReward"} =>
        \A stats \in ArmsOf(call.optimizer.model) :
            /\ stats.plays >= 0
            /\ 0 <= stats.reward
            /\ stats.reward <= 100 * stats.plays

\* a reward above 1 and one that is not a number have been recorded, for a
\* plan that holds a token twice
C23_Witness ==
    /\ call.fn = "recordReward"
    /\ call.calls = MaxOptimizerCalls
    /\ call.args[2].kind = "NaN"
    /\ \E stats \in ArmsOf(call.optimizer.model) : stats.plays = 2 /\ stats.reward = 100
    /\ \E entry \in Range(call.optimizer.model.tokenStats) : entry.plays > 2

\* the reward recordReward adds for a raw reward, in hundredths
Clamped(reward) ==
    IF reward.kind # "finite" THEN 0
    ELSE IF reward.hundredths < 0 THEN 0
    ELSE IF reward.hundredths > 100 THEN 100
    ELSE reward.hundredths

\* C24: recordReward(plan, r) adds one play and the clamped r to the plan's
\* selected style arm, selected randomness arm and selected mutation-intensity
\* arm, and leaves every other arm of the three bandits as it was.
C24_OnlySelectedArmsUpdated ==
    call.fn = "recordReward" =>
        LET was == call.before.model
            now_ == call.optimizer.model
            chosen == call.args[1]
            Updated(before, after) ==
                /\ after.plays = before.plays + 1
                /\ after.reward = before.reward + Clamped(call.args[2])
        IN  /\ \A arm \in Range(STYLE_VALUES) :
                   IF arm = chosen.selectedStyle
                   THEN Updated(was.styleBandit[arm], now_.styleBandit[arm])
                   ELSE now_.styleBandit[arm] = was.styleBandit[arm]
            /\ \A arm \in Range(RANDOMNESS_VALUES) :
                   IF arm = chosen.selectedRandomness
                   THEN Updated(was.randomnessBandit[arm], now_.randomnessBandit[arm])
                   ELSE now_.randomnessBandit[arm] = was.randomnessBandit[arm]
            /\ \A arm \in Range(MUTATION_INTENSITY_VALUES) :
                   IF arm = chosen.selectedMutationIntensity
                   THEN Updated(was.mutationBandit[arm], now_.mutationBandit[arm])
                   ELSE now_.mutationBandit[arm] = was.mutationBandit[arm]

\* a second reward was recorded for a plan: its arms went from one play to two
C24_Witness ==
    /\ call.fn = "recordReward"
    /\ call.args[2] = Finite(37)
    /\ call.before.model.styleBandit[call.args[1].selectedStyle] =
           [plays |-> 1, reward |-> 100]
    /\ call.optimizer.model.styleBandit[call.args[1].selectedStyle] =
           [plays |-> 2, reward |-> 137]
    /\ call.args[1].selectedStyle = "spelling"
    /\ call.args[1].selectedMutationIntensity = "high"

\* the rewards an optimizer was fed before its loop k
RewardsBefore(who, k) == SubSeq(call.rewards[who], 1, k - 1)

\* C25: two optimizers built from the same request, the same model object and
\* the same seed return the same plan for loop 1, and for every later loop
\* before which they were fed the same rewards; and no call on one of them
\* changes the other, its model, its tokens or its random source.
C25_SameSeedSamePlans ==
    call.fn \in {"constructor", "nextLoop", "recordReward"} =>
        /\ \A k \in 1..MaxPairLoops :
               (/\ k <= Len(call.plans["a"])
                /\ k <= Len(call.plans["b"])
                /\ RewardsBefore("a", k) = RewardsBefore("b", k))
                   => call.plans["a"][k] = call.plans["b"][k]
        /\ call.before = Others(call.heap, call.optimizers, call.who)

\* both optimizers have planned their second loop after the same reward, b
\* only after a had finished
C25_Witness ==
    /\ call.fn = "nextLoop"
    /\ call.who = "b"
    /\ Len(call.plans["a"]) = 2
    /\ Len(call.rewards["a"]) = 2
    /\ Len(call.plans["b"]) = 2
    /\ call.rewards["a"][1] = call.rewards["b"][1]
    /\ call.plans["b"][2] # call.plans["b"][1]
    /\ call.plans["b"][2].input.keywords # call.args[1].keywords

\* C26: every call of scoreDomainResult returns a marketabilityScore, a
\* financialValueScore and an overallScore between 0 and 100 (scores are in
\* hundredths)
C26_ScoresWithinBounds ==
    (call.fn = "scoreDomainResult" /\ call.returned) =>
        /\ call.result.marketabilityScore \in 0..10000
        /\ call.result.financialValueScore \in 0..10000
        /\ call.result.overallScore \in 0..10000

\* a result whose weighted financial components reach the upper bound, and
\* whose affordability component was cut back to it, has been scored
C26_Witness ==
    /\ call.fn = "scoreDomainResult"
    /\ call.returned
    /\ call.args[1].price # NoPrice
    /\ 112 * Max2(100, call.args[2].yearlyBudget) - 65 * call.args[1].price
           > 100 * Max2(100, call.args[2].yearlyBudget)
    /\ call.result.financialValueScore = 10000
    /\ call.result.marketabilityScore > 0

\* the two results of the last two calls are available, within the budget and
\* priced
PricedInBudget(was, now_) ==
    /\ was.available /\ now_.available
    /\ ~was.overBudget /\ ~now_.overBudget
    /\ was.price # NoPrice /\ now_.price # NoPrice

\* C27: of two available, in-budget results that differ only in price, the
\* one with the lower price gets the strictly higher overallScore
C27_LowerPriceScoresHigher ==
    (/\ call.fn = "scoreDomainResult"
     /\ call.returned
     /\ call.before # NoCall
     /\ PricedInBudget(call.before.args[1], call.args[1])
     /\ call.args[1].price < call.before.args[1].price)
        => call.result.overallScore > call.before.result.overallScore

\* the sign of a comparator's answer
Sign(n) == IF n < 0 THEN 0 - 1 ELSE IF n > 0 THEN 1 ELSE 0

\* the comparator of mode is a strict total order on rows: no two rows at
\* different places compare equal, a before b exactly if b after a, and the
\* order is transitive
StrictTotalOrder(rows, mode) ==
    /\ \A i, j \in 1..Len(rows) :
          /\ (Compare(mode, rows[i], rows[j]) = 0) <=> (i = j)
          /\ Sign(Compare(mode, rows[i], rows[j])) = 0 - Sign(Compare(mode, rows[j], rows[i]))
    /\ \A i, j, k \in 1..Len(rows) :
          (Compare(mode, rows[i], rows[j]) < 0 /\ Compare(mode, rows[j], rows[k]) < 0)
              => Compare(mode, rows[i], rows[k]) < 0

PairwiseDistinctDomains(rows) ==
    \A i, j \in 1..Len(rows) : rows[i].domain = rows[j].domain => i = j

\* the rows of a sequence with their multiplicities
BagOf(rows) == [row \in Range(rows) |-> Cardinality({i \in 1..Len(rows) : rows[i] = row})]

\* C28: in each of the five modes the comparator is a strict total order on
\* rows with pairwise distinct domains; sortRankedDomains returns a new array
\* holding a permutation of its input, in the comparator's order, and leaves
\* the input array as it was; sorting the returned array again returns the
\* same sequence
C28_SortIsTotalAndIdempotent ==
    (call.fn = "sortRankedDomains" /\ call.returned) =>
        /\ PairwiseDistinctDomains(call.heap[call.args[1]])
              => StrictTotalOrder(call.heap[call.args[1]], call.args[2])
        /\ call.result # call.args[1]
        /\ BagOf(call.heap[call.result]) = BagOf(call.heap[call.args[1]])
        /\ Len(call.heap[call.result]) = Len(call.heap[call.args[1]])
        /\ \A i \in 1..(Len(call.heap[call.result]) - 1) :
              Compare(call.args[2], call.heap[call.result][i],
                      call.heap[call.result][i + 1]) <= 0
        /\ call.heap[1] = call.rows
        /\ call.before # 0 =>
              /\ call.heap[call.args[1]] = sortRankedDomains(call.rows, call.args[2])
              /\ call.heap[call.result] = call.heap[call.args[1]]

\* three rows with distinct domains, two of which tie on the mode's key and
\* on the overall score, were given out of order, sorted and sorted again
C28_Witness ==
    /\ call.fn = "sortRankedDomains"
    /\ call.returned
    /\ call.before # 0
    /\ Len(call.heap[1]) = 3
    /\ PairwiseDistinctDomains(call.heap[1])
    /\ call.heap[2] # call.heap[1]
    /\ \E i, j \in 1..3 :
          /\ i # j
          /\ call.heap[1][i].marketabilityScore = call.heap[1][j].marketabilityScore
          /\ call.heap[1][i].overallScore = call.heap[1][j].overallScore

RECURSIVE Concatenated(_)
\* the chunks joined in order
Concatenated(chunks) ==
    IF chunks = <<>> THEN <<>> ELSE Head(chunks) \o Concatenated(Tail(chunks))

\* C29: for a list of N domains and a chunk size S >= 1, chunkDomains returns
\* ceil(N / S) chunks, each of at most S domains, whose concatenation in order
\* is the list
C29_ChunksCoverInOrder ==
    (call.fn = "chunkDomains" /\ call.returned) =>
        /\ Len(call.result) * call.args[2] >= Len(call.args[1])
        /\ (Len(call.result) - 1) * call.args[2] < Len(call.args[1]) \/ call.result = <<>>
        /\ (call.result = <<>>) <=> (call.args[1] = <<>>)
        /\ \A k \in 1..Len(call.result) : Len(call.result[k]) \in 1..call.args[2]
        /\ Concatenated(call.result) = call.args[1]

\* five domains, one of them named twice, were cut into chunks of two: two
\* full chunks and a last chunk of one
C29_Witness ==
    /\ call.fn = "chunkDomains"
    /\ call.returned
    /\ Len(call.args[1]) = 5
    /\ call.args[2] = 2
    /\ Len(call.result) = 3
    /\ Len(call.result[3]) = 1
    /\ Cardinality(Range(call.args[1])) = 2

\* C30: a step removes a job from the registry only if the job was done or
\* failed and its completedAt lay more than the retention window of thirty
\* minutes in the past; so a queued or running job is never removed, and no
\* update of a run has missed its job's document
C30_OnlyExpiredTerminalJobsRemoved ==
    [][/\ \A id \in DOMAIN jobs \ DOMAIN jobs' :
              /\ jobs[id].status \in {"done", "failed"}
              /\ jobs[id].completedAt # NoTime
              /\ now - jobs[id].completedAt > JOB_RETENTION_MS
       /\ \A id \in DOMAIN jobs :
              jobs[id].status \in {"queued", "running"} => id \in DOMAIN jobs'
       /\ call.fn = "jobs" => call'.missed = {}]_vars

\* the sweep has removed a finished job, and a job that has been running for
\* longer than the retention window has just been updated
C30_Witness ==
    /\ call.fn = "jobs"
    /\ \E id \in issuedIds : id \notin DOMAIN jobs
    /\ \E id \in DOMAIN jobs :
          /\ jobs[id].status = "running"
          /\ jobs[id].progress = 50
          /\ jobs[id].updatedAt = now
          /\ now - jobs[id].startedAt > JOB_RETENTION_MS

\* C31: a step of the registry changes the document of at most one job, a
\* step that adds or removes a job changes none, and every job in the
\* registry carries its own id and the request it was submitted with, however
\* the runs of the jobs interleave
C31_OperationsKeepOtherJobsAndInput ==
    [][call.fn = "jobs" =>
          /\ Cardinality({id \in DOMAIN jobs \cap DOMAIN jobs' : jobs'[id] # jobs[id]})
                 <= (IF DOMAIN jobs' = DOMAIN jobs THEN 1 ELSE 0)
          /\ \A id \in DOMAIN jobs' :
                 /\ jobs'[id].id = id
                 /\ jobs'[id].input = call'.submitted[id]]_vars

\* two jobs submitted with different requests ran at the same time, both
\* were updated, and one ended done and the other failed
C31_Witness ==
    /\ call.fn = "jobs"
    /\ DOMAIN jobs = {1, 2}
    /\ jobs[1].input # jobs[2].input
    /\ jobs[1].status = "done"
    /\ jobs[2].status = "failed"
    /\ jobs[1].currentLoop = 1
    /\ jobs[2].currentLoop = 1
    /\ jobs[2].startedAt < jobs[1].completedAt
    /\ jobs[1].startedAt < jobs[2].completedAt

\* C32: a running job's progress is an integer from 5 to 95, and a progress of
\* 100 is stored only with status done
C32_RunningProgressInBand ==
    \A id \in DOMAIN jobs :
        /\ jobs[id].status = "running" => jobs[id].progress \in 5..95
        /\ jobs[id].progress = 100 => jobs[id].status = "done"

\* the last loop of a run of two loops has been committed and published: the
\* job is still running, at the top of the band
C32_Witness ==
    /\ jobId \in DOMAIN jobs
    /\ jobs[jobId].status = "running"
    /\ jobs[jobId].progress = 95
    /\ jobs[jobId].totalLoops = 2
    /\ jobs[jobId].currentLoop = 2
\* the loop summaries a job has published
SummariesOf(job) == IF job.results = <<>> THEN <<>> ELSE job.results[1].loopSummaries

\* C33: every started job eventually reaches status done or failed when every
\* awaited call returns or throws: a job that is queued or running leads to
\* the same job being done or failed
C33_StartedJobsSettle ==
    \A id \in JobIds :
        (id \in DOMAIN jobs /\ jobs[id].status \in {"queued", "running"})
            ~> (id \in DOMAIN jobs /\ jobs[id].status \in {"done", "failed"})

\* a job that is done after a loop that the stall limit stopped, its run
\* settled and no step of it left
C33_Witness ==
    /\ pc = "idle"
    /\ settled = "fulfilled"
    /\ \E id \in DOMAIN jobs :
           /\ jobs[id].status = "done"
           /\ Len(SummariesOf(jobs[id])) = 1
           /\ SummariesOf(jobs[id])[1].skipReason = StalledReason
           /\ SummariesOf(jobs[id])[1].batchCount > 3

\* C34: no loop issues more than 12 generation batches: the batch counter of
\* the loop in flight and the batchCount of every LoopSummary, committed or
\* published in a job's results, is at most 12
C34_AtMostTwelveBatchesPerLoop ==
    /\ batchCount <= 12
    /\ \A i \in 1..Len(loopSummaries) : loopSummaries[i].batchCount <= 12
    /\ \A id \in DOMAIN jobs :
           \A i \in 1..Len(SummariesOf(jobs[id])) :
               SummariesOf(jobs[id])[i].batchCount <= 12

\* a finished job whose only loop ran twelve batches and stopped at the cap
C34_Witness ==
    \E id \in DOMAIN jobs :
        /\ jobs[id].status = "done"
        /\ Len(SummariesOf(jobs[id])) = 1
        /\ SummariesOf(jobs[id])[1].batchCount = 12
        /\ SummariesOf(jobs[id])[1].skipReason = BatchCapReason
        /\ ~SummariesOf(jobs[id])[1].quotaMet

\* C35: within a loop the stall counter equals the number of most recent
\* consecutive batches that added no newly qualifying candidate: a new loop
\* starts it at zero, a batch that ends (with or without fresh candidates)
\* resets it to zero when it added a candidate to the loop's list and adds
\* one when it did not, and no other step of the run changes it (the run of a
\* new request has a counter of its own); the stall reason is set only when
\* the counter has reached 3
BatchEnds == pc \in {"scraping", "checking"} /\ pc' = "live"

LoopBegins == pc = "loopHead" /\ pc' = "batchHead"

\* a request starts a run, whose locals are new
RunBegins == pc = "idle" /\ pc' = "start"

C35_StallCounterCountsEmptyBatches ==
    [][/\ LoopBegins => stalledBatches' = 0
       /\ BatchEnds =>
              stalledBatches' = IF Len(loopRawAvailable') > Len(loopRawAvailable)
                                THEN 0 ELSE stalledBatches + 1
       /\ (~LoopBegins /\ ~BatchEnds /\ ~RunBegins) => stalledBatches' = stalledBatches
       /\ (skipReason' = StalledReason /\ skipReason # StalledReason) =>
              /\ stalledBatches = LOOP_MAX_STALLED_BATCHES
              /\ stalledBatches' = stalledBatches]_vars

\* a finished loop of five batches that the stall limit stopped and that found
\* one candidate: the counter was reset by a batch and then reached 3
C35_Witness ==
    \E id \in DOMAIN jobs :
        /\ jobs[id].status = "done"
        /\ Len(SummariesOf(jobs[id])) = 1
        /\ SummariesOf(jobs[id])[1].skipReason = StalledReason
        /\ SummariesOf(jobs[id])[1].batchCount = 5
        /\ SummariesOf(jobs[id])[1].discoveredCount = 1

\* C36: within one loop no domain is handed to checkAvailabilityBulk more
\* than once and consideredCount counts each distinct domain once: the
\* domains a batch submits are pairwise distinct and none of them was
\* submitted before in the loop, they are exactly what the batch adds to the
\* loop's seen set, the counter is the size of that set, and the set only
\* grows until the next loop starts with an empty set and a counter of zero
\* (or the run of a new request starts with its own)
SubmittedBy(candidates) ==
    {toLowerCase(candidates[i].domain) : i \in 1..Len(candidates)}

ScrapeResolves == pc = "scraping" /\ pc' \in {"checking", "live"}

C36_DomainsConsideredOncePerLoop ==
    [][/\ consideredCount' = Cardinality(seenDomains')
       /\ LoopBegins => (seenDomains' = {} /\ consideredCount' = 0)
       /\ (~LoopBegins /\ ~RunBegins) => seenDomains \subseteq seenDomains'
       /\ ~ScrapeResolves => seenDomains' \subseteq seenDomains
       /\ ScrapeResolves =>
              /\ SubmittedBy(freshCandidates') \cap seenDomains = {}
              /\ Cardinality(SubmittedBy(freshCandidates')) = Len(freshCandidates')
              /\ seenDomains' = seenDomains \cup SubmittedBy(freshCandidates')
              /\ consideredCount' = consideredCount + Len(freshCandidates')
              /\ (pc' = "checking") = (freshCandidates' # <<>>)]_vars

\* the second batch of loop 2 overlaps the first and submits only its new
\* domain, which loop 1 had submitted and found
C36_Witness ==
    /\ loop = 2
    /\ pc = "checking"
    /\ batchCount = 2
    /\ consideredCount = 2
    /\ Len(freshCandidates) = 1
    /\ SubmittedBy(freshCandidates) \subseteq FoundDomains(1)

\* C37: when chooseArm does not explore, the arm it returns has the maximal
\* running average among the arms (0.55 for an unplayed arm), and when several
\* arms tie for the maximum each of them is returned for some random source
MaximalArms(bandit, arms) ==
    {a \in Range(arms) :
        \A b \in Range(arms) : averageRewardDifference(bandit[b], bandit[a]) <= 0}

C37_ExploitReturnsAnyBestArm ==
    (call.fn = "chooseArm" /\ call.returned) =>
        /\ ~Explores(call.args[2], RANDOMNESS_EPSILON) =>
               call.result \in MaximalArms(call.args[1], RANDOMNESS_VALUES)
        /\ \A a \in MaximalArms(call.args[1], RANDOMNESS_VALUES) :
               \E seed \in ArmSeeds :
                   /\ ~Explores(seed, RANDOMNESS_EPSILON)
                   /\ chooseArmWith(call.args[1], RANDOMNESS_VALUES, RANDOMNESS_EPSILON,
                                    ToWord(seed)).arm = a

\* chooseArm did not explore and returned the first of three arms that tie at
\* 0.55, one unplayed and two played
C37_Witness ==
    /\ call.fn = "chooseArm"
    /\ call.returned
    /\ ~Explores(call.args[2], RANDOMNESS_EPSILON)
    /\ call.args[1] = [low |-> [plays |-> 1, reward |-> 55],
                       medium |-> createArmStats,
                       high |-> [plays |-> 2, reward |-> 110]]
    /\ call.result = "low"

\* C38: when no chunk request throws, the map checkAvailabilityBulk returns
\* has an entry for every distinct trimmed, lower-cased, non-empty domain
\* given and for nothing else, each under its own name, whichever order the
\* chunks' tasks completed in: a domain its chunk's payload lists holds what
\* the payload says, and a domain its payload does not mention is
\* unavailable, not definitive and has a reason
AskedDomains(domains) ==
    {toLowerCase(StripEdges(domains[i], Whitespace)) : i \in 1..Len(domains)} \ {<<>>}

\* what the payloads of the chunks say about a domain: the infos and the
\* errors that name it
InfosAbout(d) ==
    {info \in UNION {Range(call.payloads[k][1].domains) : k \in 1..Len(call.payloads)} :
        toLowerCase(info.domain) = d}

ErrorsAbout(d) ==
    {error \in UNION {Range(call.payloads[k][1].errors) : k \in 1..Len(call.payloads)} :
        toLowerCase(error.domain) = d}

C38_MapHoldsEveryDomainOnce ==
    (call.fn = "checkAvailabilityBulk" /\ call.returned) =>
        /\ DOMAIN call.resultMap = AskedDomains(call.args)
        /\ \A d \in DOMAIN call.resultMap :
               /\ call.resultMap[d].domain = d
               /\ ErrorsAbout(d) # {} =>
                      /\ ~call.resultMap[d].available
                      /\ ~call.resultMap[d].definitive
                      /\ \E error \in ErrorsAbout(d) : call.resultMap[d].reason = error.message
               /\ (ErrorsAbout(d) = {} /\ InfosAbout(d) # {}) =>
                      \E info \in InfosAbout(d) :
                          /\ call.resultMap[d].available = info.available
                          /\ call.resultMap[d].definitive = info.definitive
                          /\ call.resultMap[d].priceMicros = info.priceMicros
               /\ (ErrorsAbout(d) = {} /\ InfosAbout(d) = {}) =>
                      /\ ~call.resultMap[d].available
                      /\ ~call.resultMap[d].definitive
                      /\ call.resultMap[d].reason = NoResponseReason

\* two chunks, the second completed first and answered for its domains, the
\* first answered nothing; the list repeated a domain in another case and
\* held a blank string
C38_Witness ==
    /\ call.fn = "checkAvailabilityBulk"
    /\ call.returned
    /\ call.order = <<2, 1>>
    /\ Len(call.args) > Cardinality(DOMAIN call.resultMap)
    /\ call.payloads[1][1].domains = <<>>
    /\ call.payloads[1][1].errors = <<>>
    /\ \E d \in Range(call.chunks[2]) : call.resultMap[d].available
    /\ \E d \in Range(call.chunks[1]) : call.resultMap[d].reason = NoResponseReason

\* C39: after loop L is merged every entry of the aggregate has
\* 1 <= firstSeenLoop <= lastSeenLoop <= L and a timesDiscovered that is the
\* number of loops among 1..L in which its domain was one of the loop's
\* qualifying candidates (firstSeenLoop and lastSeenLoop being the first and
\* the last of them); within a run only the commit of a loop changes the
\* aggregate, so the preview merges of the live publishes leave it alone, and
\* no row the run has published counts more discoveries than there are loops
\* that found its domain
DiscoveredIn(d, loops) == {n \in loops : d \in FoundDomains(n)}

AggregateMatchesLoops ==
    /\ \A n \in 1..Len(loopSummaries) : FoundDomains(n) \subseteq DOMAIN aggregate
    /\ \A d \in DOMAIN aggregate :
           \E first, last \in DiscoveredIn(d, 1..Len(loopSummaries)) :
               /\ \A n \in DiscoveredIn(d, 1..Len(loopSummaries)) : first <= n /\ n <= last
               /\ aggregate[d].firstSeenLoop = first
               /\ aggregate[d].lastSeenLoop = last
               /\ aggregate[d].timesDiscovered =
                      Cardinality(DiscoveredIn(d, 1..Len(loopSummaries)))
               /\ 1 <= first /\ first <= last /\ last <= Len(loopSummaries)

PublishedNotInflated ==
    \A id \in DOMAIN jobs \cap {jobId} :
        jobs[id].results # <<>> =>
            \A i \in 1..Len(jobs[id].results[1].allRanked) :
                jobs[id].results[1].allRanked[i].timesDiscovered
                    <= Cardinality(DiscoveredIn(
                           toLowerCase(jobs[id].results[1].allRanked[i].domain),
                           1..Len(found)))

C39_AggregateCountsLoops ==
    /\ [](AggregateMatchesLoops /\ PublishedNotInflated)
    /\ [][CommitStep \/ RunBegins \/ aggregate' = aggregate]_vars

\* after two loops, each with a live publish, a domain both loops found has
\* been discovered twice, first in loop 1 and last in loop 2
C39_Witness ==
    /\ Len(loopSummaries) = 2
    /\ \E id \in DOMAIN jobs : jobs[id].status = "done"
    /\ \E d \in DOMAIN aggregate :
           /\ d \in FoundDomains(1) \cap FoundDomains(2)
           /\ aggregate[d].firstSeenLoop = 1
           /\ aggregate[d].lastSeenLoop = 2
           /\ aggregate[d].timesDiscovered = 2

\* C40: a step that marks a job failed changes only the job's status, phase,
\* error, completedAt and updatedAt: the failed job holds the results
\* snapshot, progress, currentLoop and totalLoops it held just before, which
\* are the ones the run published last
FailedFields == {"status", "phase", "error", "completedAt", "updatedAt"}

BecomesFailed(id) ==
    /\ id \in DOMAIN jobs
    /\ id \in DOMAIN jobs'
    /\ jobs[id].status # "failed"
    /\ jobs'[id].status = "failed"

C40_FailureKeepsPublishedState ==
    [][\A id \in JobIds :
          BecomesFailed(id) =>
              /\ DOMAIN jobs'[id] = DOMAIN jobs[id]
              /\ \A f \in DOMAIN jobs[id] \ FailedFields : jobs'[id][f] = jobs[id][f]
              /\ jobs'[id].phase = NoPhase
              /\ jobs'[id].error # <<>>
              /\ jobs'[id].completedAt = now
              /\ jobs'[id].updatedAt = now]_vars

\* a job that failed in its second loop, after the results of the first
\* loop were published
C40_Witness ==
    \E id \in DOMAIN jobs :
        /\ jobs[id].status = "failed"
        /\ jobs[id].currentLoop = 2
        /\ jobs[id].totalLoops = 2
        /\ jobs[id].progress > 5
        /\ jobs[id].results # <<>>
        /\ jobs[id].results[1].allRanked # <<>>
        /\ jobs[id].phase = NoPhase
        /\ jobs[id].error # <<>>

====
